---- MODULE Spec2Model ----
(***************************************************************************)
(* HTCP server runtime (src/src/htcp): the connection registries, the      *)
(* per-connection reader task of AsyncServer, transaction dispatch and     *)
(* the producer tasks of active subscriptions.                             *)
(*                                                                         *)
(* AsyncServer runs on one cooperative scheduler: a task runs until it     *)
(* suspends.  `turn` names the task that is in the middle of a turn; an    *)
(* action of another task is enabled only when turn = Idle.                *)
(***************************************************************************)
EXTENDS Integers, Sequences, FiniteSets, TLC

\* ------------------------------------------------------------------ bounds
NConns == 3          \* client addresses
MaxK == 2            \* largest max_connections tried by the admission scenario
MaxSubs == 2         \* producer tasks created in one run
MaxYield == 2        \* values a producer yields
MaxPackets == 4      \* packets the clients send in one run
NThreads == 2        \* threads or tasks sharing one client
MaxCalls == 2        \* calls each of them makes
NSubscribers == 2    \* NotifyManager.subscribe streams in one run
MaxEvents == 2       \* notify_user calls in one run

\* ------------------------------------------------------- program constants
DEFAULT_MAX_CONNECTIONS == 100
SUCCESS == 0
UNKNOWN_TRANSACTION == 1
INVALID_ARGUMENTS == 2
EXECUTION_ERROR == 3
PROTOCOL_ERROR == 4
INTERNAL_ERROR == 5
PROTOCOL_VERSION == 1
MAX_PAYLOAD_SIZE == 16777216

Conns == 1..NConns
\* the connection observed by the per-connection scenarios
Served == {1}
Subs == 1..MaxSubs
Ids == {"a", "b"}
NoSub == 0
Idle == <<"none", 0>>
Reader(c) == <<"reader", c>>
Producer(s) == <<"producer", s>>

VARIABLES
    server,          \* the runtime in use: "AsyncServer" or the threaded "Server"
    max_connections, \* AsyncServer.max_connections / registry bound
    running,         \* AsyncServer._running
    connections,     \* AsyncConnectionRegistry._connections (its addresses)
    regLock,         \* AsyncConnectionRegistry._lock: "free" or "close_all"
    closing,         \* connections close_all has still to close
    rpc,             \* position of each _handle_client task
    connected,       \* AsyncServerClientConnection._connected
    streamClosed,    \* the server closed this client's writer
    peerGone,        \* the client went away: reads end, writes fail
    read_timeout,    \* the connection still has a read timeout
    handshaken,      \* history: a handshake-request was received
    pending,         \* transaction handlers being awaited, by call number
    nCalls,          \* history: transaction-calls received
    calls,           \* history: each call received, and how it was answered
    wire,            \* packets written to each client's stream, in order
    subscriptions,   \* AsyncActiveSubscriptionRegistry._subscriptions
    by_client,       \* AsyncActiveSubscriptionRegistry._by_client
    task,            \* the producer tasks (_run_subscription)
    hist,            \* history of each producer task
    turn,            \* the task in the middle of a scheduler turn
    budget,          \* client packets left in this run
    sconnections,    \* ConnectionRegistry._connections (threaded server)
    slock,           \* ConnectionRegistry._lock: 0 free, else the holder
    spc,             \* position of each thread calling the sync registry
    srefused,        \* history: the sync registry refused a connection
    upc,             \* position of AsyncServer.up
    waitsForClients, \* the interpreter's Server.wait_closed waits for the
                     \* client connections to be gone (Python 3.12 and later)
    client,          \* the client in use: "Client" (threads) or "AsyncClient"
    cpc,             \* position of each caller inside call()
    clock,           \* ClientConnection._lock: its holder, or 0
    cwaiters,        \* asyncio.Lock._waiters of AsyncClientConnection._lock
    cwire,           \* calls on the stream the server has not answered
    creplies,        \* replies on the stream no caller has read
    result,          \* the reply each caller's last call() returned
    ncall,           \* calls each caller has completed
    hasMate,         \* the user shares a chat with another user
    nm_keys,         \* NotifyManager._subscriptions: the user_ids present
    nm_entry,        \* NotifyManager._subscriptions: token -> registered queue
    nm_lock,         \* NotifyManager._lock: its holder, or 0
    nm_waiters,      \* NotifyManager._lock: the tasks waiting for it, in order
    nm_pc,           \* position of each subscribe() stream
    nm_token,        \* the token each subscribe() was called with
    nm_cancelled,    \* the stream's task has been cancelled
    nm_queue,        \* the asyncio.Queue each subscribe() created
    nm_yielded,      \* history: the events each stream has yielded
    nm_hist,         \* history: what each stream saw and did
    nm_notifier,     \* position of the caller of notify_user
    nm_called,       \* notify_user calls begun
    nm_sent,         \* notify_user calls that have run
    th_read_timeout, \* Server.read_timeout is set (not None)
    th_write_timeout,\* Server.write_timeout is set (not None)
    th_sock_timeout, \* the client socket has a timeout (settimeout was called)
    th_pc,           \* position of the threaded Server's _handle_client
    th_connected,    \* ServerClientConnection._connected
    th_peerGone,     \* the client of the threaded Server went away
    th_active,       \* ActiveSubscriptionRegistry: the ids registered
    th_prod,         \* position of each _run_subscription thread
    th_yielded,      \* values each producer thread has taken from its generator
    th_wire,         \* packets the threaded Server wrote to its client
    th_calls,        \* history: each call the threaded Server received
    th_budget,       \* client packets left for the threaded Server
    th_cut,          \* history: a socket timeout ended a subscribed connection
    \* a client's subscription handle (SubscriptionIterator)
    h_id,            \* SubscriptionIterator._subscription_id
    h_active,        \* SubscriptionIterator._active
    h_ended,         \* SubscriptionIterator._ended
    h_connected,     \* the client connection's _connected
    h_scope,         \* "in" the with-block of the handle, or "out" of it
    h_sent,          \* packets the client has sent for the handle
    h_got,           \* history: what each __next__ of the handle met
    h_ncancel,       \* history: calls of cancel(), __exit__ included
    \* the value serializer
    s_val,           \* the value handed to serialize
    s_depth,         \* its nesting depth
    s_out,           \* what deserialize(serialize(s_val)) gave
    \* the legacy threaded Server (libs/htcp)
    l_max,           \* Server.max_connections
    l_clients,       \* Server._clients: the addresses registered
    l_pc,            \* where each connection and its handler thread stand
    l_loop,          \* the connection _accept_loop is busy with, 0 at accept()
    l_current,       \* _accept_loop's local current_connections
    \* the writers of one client socket of the threaded Server
    w_left,          \* per writer thread: the bytes sendall has still to write
    w_count,         \* per writer thread: the packets it has handed to sendall
    w_stream,        \* the bytes written to the socket, in order
    \* a subscribed user sharing a chat with the users of NotifyManager
    p_events         \* the presence events enqueued on that peer's queue

coreVars == <<server, max_connections, running, connections, regLock, closing, rpc,
          connected, streamClosed, peerGone, read_timeout, handshaken,
          pending, nCalls, calls, wire, subscriptions, by_client, task, hist, turn,
          budget, sconnections, slock, spc, srefused>>
upVars == <<upc, waitsForClients>>
clientVars == <<client, cpc, clock, cwaiters, cwire, creplies, result, ncall>>
notifyVars == <<hasMate, nm_keys, nm_entry, nm_lock, nm_waiters, nm_pc, nm_token,
                nm_cancelled, nm_queue, nm_yielded, nm_hist, nm_notifier,
                nm_called, nm_sent>>
\* what the steps of the server's readers, producers and registries leave alone
thrVars == <<th_read_timeout, th_write_timeout, th_sock_timeout, th_pc, th_connected,
             th_peerGone, th_active, th_prod, th_yielded, th_wire, th_calls,
             th_budget, th_cut>>
handleVars == <<h_id, h_active, h_ended, h_connected, h_scope, h_sent, h_got, h_ncancel>>
serVars == <<s_val, s_depth, s_out>>
legacyVars == <<l_max, l_clients, l_pc, l_loop, l_current>>
writeVars == <<w_left, w_count, w_stream>>
presenceVars == <<p_events>>
moreVars == <<handleVars, serVars, legacyVars, writeVars, presenceVars>>
\* everything but the handle, the serializer, the legacy server, the writers
butHandle == <<coreVars, upVars, clientVars, notifyVars, thrVars, serVars, legacyVars, writeVars, presenceVars>>
butValues == <<coreVars, upVars, clientVars, notifyVars, thrVars, handleVars, legacyVars, writeVars, presenceVars>>
butLegacy == <<coreVars, upVars, clientVars, notifyVars, thrVars, handleVars, serVars, writeVars, presenceVars>>
butWrites == <<coreVars, upVars, clientVars, notifyVars, thrVars, handleVars, serVars, legacyVars, presenceVars>>
extVars == <<upVars, clientVars, notifyVars, thrVars, moreVars>>
vars == <<coreVars, extVars>>

regVars == <<connections, regLock, closing>>
syncVars == <<sconnections, slock, spc, srefused>>
subVars == <<subscriptions, by_client, task, hist>>
callVars == <<pending, nCalls, calls>>

\* ----------------------------------------------------------------- packets
\* A server packet: its type, the subscription id, the data value and the
\* error code it carries.  `call` and `src` are history fields: the number of
\* the transaction-call it answers and the producer task that wrote it.
Pkt(type, sid, data, err, call, src) ==
    [type |-> type, sid |-> sid, data |-> data, err |-> err,
     call |-> call, src |-> src, msg |-> "-"]

HandshakeResponse == Pkt("handshake_response", "-", 0, SUCCESS, 0, NoSub)
TransactionResult(err, call) == Pkt("transaction_result", "-", 0, err, call, NoSub)
\* a failure result with its error_message
FailureResult(err, call, message) == [TransactionResult(err, call) EXCEPT !.msg = message]
\* a faulty variant: the unknown code is reported as an execution error
UnknownTransactionAsExecution(code, call) ==
    FailureResult(EXECUTION_ERROR, call, "Unknown transaction: " \o code)
\* error_message=f"Unknown transaction: {transaction_code}"
UnknownTransaction(code, call) ==
    FailureResult(UNKNOWN_TRANSACTION, call, "Unknown transaction: " \o code)
ErrorPacket(err, call) == Pkt("error", "-", 0, err, call, NoSub)
SubscribeDataWrongId(sid, data, src) == Pkt("subscribe_data", "-", data, SUCCESS, 0, src)
SubscribeData(sid, data, src) == Pkt("subscribe_data", sid, data, SUCCESS, 0, src)
SubscribeEnd(sid, src) == Pkt("subscribe_end", sid, 0, SUCCESS, 0, src)
\* a faulty variant: a subscribe-error that does not name the subscription
SubscribeErrorNoId(sid, err, src) == Pkt("subscribe_error", "-", 0, err, 0, src)
SubscribeError(sid, err, src) == Pkt("subscribe_error", sid, 0, err, 0, src)

\* _send_packet: the packet is written unless the write fails, and a failed
\* write marks the connection disconnected.
WriteOk(c) == ~peerGone[c] /\ ~streamClosed[c]
WireAfter(w, c, p) == IF WriteOk(c) THEN [w EXCEPT ![c] = Append(@, p)] ELSE w
ConnectedAfter(cn, c) == IF WriteOk(c) THEN cn ELSE [cn EXCEPT ![c] = FALSE]

\* ---------------------------------------------------- connection registries
RegistryFullOffByOne(n, max) == max > 0 /\ n > max
\* AsyncConnectionRegistry.try_add: max_connections > 0 and len >= max
RegistryFull(n, max) == max > 0 /\ n >= max

\* ConnectionRegistry.try_add: 0 < max_connections <= len
SyncRegistryFull(n, max) == 0 < max /\ max <= n


\* ------------------------------------------------------- client packets
\* A client packet: its type and, by type, the transaction code and the
\* shape of its arguments, or the subscription id and the event type.
CPkt(type, code, args, sid, event) ==
    [type |-> type, code |-> code, args |-> args, sid |-> sid, event |-> event]

\* Registered transactions: "echo" returns its argument, "boom" raises,
\* "blob" returns a value the serializer rejects.  "nope" is not registered.
\* "stop" is a sync handler that raises StopIteration (next() on an
\* exhausted iterator); it runs in the executor like every sync handler.
Codes == {"echo", "boom", "blob", "stop"}
\* Registered subscription producers:
\*   ticks       async generator, yields MaxYield values and returns
\*   forever     async generator that never returns
\*   subscribe   user_subscribe over NotifyManager.subscribe: never returns,
\*               catches CancelledError, cleans up and returns
\*   sync_ticks  sync generator, yields MaxYield values and returns
\*   boom        async generator that raises
Kinds == {"ticks", "forever", "subscribe", "sync_ticks", "boom"}
IsAsync(kind) == kind # "sync_ticks"
Infinite(kind) == kind \in {"forever", "subscribe"}
\* NotifyManager.subscribe: except asyncio.CancelledError: pass
SwallowsCancel(kind) == kind = "subscribe"

HandshakePackets == {CPkt("handshake_request", "-", "-", "-", "-")}
DisconnectPackets == {CPkt("disconnect", "-", "-", "-", "-")}
OtherPackets == {CPkt("other", "-", "-", "-", "-")}
CallPackets ==
    {CPkt("transaction_call", code, "ok", "-", "-") :
        code \in {"echo", "boom", "blob", "nope"}}
    \cup {CPkt("transaction_call", "echo", a, "-", "-") : a \in {"bad", "malformed"}}
EchoPackets == {CPkt("transaction_call", "echo", "ok", "-", "-")}
\* calls that fail: the handler raises, the arguments cannot be coerced,
\* the payload cannot be decoded
FailingCallPackets ==
    {CPkt("transaction_call", code, "ok", "-", "-") : code \in {"boom", "stop"}}
    \cup {CPkt("transaction_call", "echo", a, "-", "-") :
             a \in {"bad", "missing_field", "wrong_shape", "malformed"}}
\* a call of a registered code and a call of an unregistered one
PlainCallPackets ==
    {CPkt("transaction_call", code, "ok", "-", "-") : code \in {"echo", "nope"}}
SubscribePackets(kinds) ==
    {CPkt("subscribe_request", "-", "ok", i, k) : i \in Ids, k \in kinds}
RefusedSubscribePackets ==
    {CPkt("subscribe_request", "-", "ok", "a", "nope"),
     CPkt("subscribe_request", "-", "bad", "a", "ticks")}
\* well-framed requests whose payload deserialize() rejects (empty,
\* truncated, unknown tag)
MalformedPackets ==
    {CPkt("transaction_call", "echo", "malformed", "-", "-"),
     CPkt("subscribe_request", "-", "malformed", "-", "-"),
     CPkt("unsubscribe_request", "-", "malformed", "-", "-")}
UnsubscribePackets ==
    {CPkt("unsubscribe_request", "-", "-", i, "-") : i \in Ids}

\* ---------------------------------------------------------- producer tasks
FreeTask == [conn |-> 0, id |-> "-", kind |-> "-", st |-> "free", n |-> 0,
             cancelReq |-> FALSE, cancelled |-> FALSE, ref |-> NoSub]
NewTask(c, id, kind) == [FreeTask EXCEPT !.conn = c, !.id = id, !.kind = kind,
                                         !.st = "created"]
NoHist == [normalEnd |-> FALSE, unsubAt |-> -1, cancelAt |-> FALSE, turns |-> 0]

Live(t) == t.st \notin {"free", "done"}

\* AsyncActiveSubscription.cancel: set the flag, cancel the task unless done.
Cancel(t) == [t EXCEPT !.cancelled = TRUE,
                       !.cancelReq = IF t.st = "done" THEN @ ELSE TRUE]

\* AsyncActiveSubscriptionRegistry.remove, on the two maps.
SubsRemove(subs, id) == [subs EXCEPT ![id] = NoSub]
ByClientRemove(byc, subs, id) ==
    IF subs[id] = NoSub THEN byc
    ELSE [byc EXCEPT ![task[subs[id]].conn] = @ \ {id}]

\* the test of _run_subscription before a value is sent: the entry the task
\* looked up is cancelled, or the client is disconnected, or the server stops
MustBreak(ref, c, cn) ==
    \/ (ref # NoSub /\ task[ref].cancelled)
    \/ ~cn[c]
    \/ ~running

\* history: a turn the producer takes after its cancellation was requested
Turned(h) == [h EXCEPT !.turns = IF h.cancelAt /\ @ < 2 THEN @ + 1 ELSE @]

\* -------------------------------------------------------------------- Init
\* The state after AsyncServer.__init__ and up(): listening, no connection.
InitServer(servers, maxes) ==
    /\ server \in servers
    /\ max_connections \in maxes
    /\ running = TRUE
    /\ connections = {}
    /\ regLock = "free"
    /\ closing = {}
    /\ rpc = [c \in Conns |-> "init"]
    /\ connected = [c \in Conns |-> FALSE]
    /\ streamClosed = [c \in Conns |-> FALSE]
    /\ peerGone = [c \in Conns |-> FALSE]
    /\ read_timeout = [c \in Conns |-> FALSE]
    /\ handshaken = [c \in Conns |-> FALSE]
    /\ pending = [c \in Conns |-> {}]
    /\ nCalls = [c \in Conns |-> 0]
    /\ calls = [c \in Conns |-> <<>>]
    /\ wire = [c \in Conns |-> <<>>]
    /\ subscriptions = [i \in Ids |-> NoSub]
    /\ by_client = [c \in Conns |-> {}]
    /\ task = [s \in Subs |-> FreeTask]
    /\ hist = [s \in Subs |-> NoHist]
    /\ turn = Idle
    /\ budget = MaxPackets
    /\ sconnections = {}
    /\ slock = 0
    /\ spc = [t \in Conns |-> "idle"]
    /\ srefused = FALSE

\* up() is serving; `builds` are the interpreters considered
InitUp(builds) ==
    /\ upc = "serving"
    /\ waitsForClients \in builds

Threads == 1..NThreads
NoReply == <<0, 0>>

\* one connected client, no call made yet
InitClient(clients) ==
    /\ client \in clients
    /\ cpc = [t \in Threads |-> "idle"]
    /\ clock = 0
    /\ cwaiters = <<>>
    /\ cwire = <<>>
    /\ creplies = <<>>
    /\ result = [t \in Threads |-> NoReply]
    /\ ncall = [t \in Threads |-> 0]

Users == {"U", "V"}
Tokens == {"a", "b", "v"}
\* tokens_repo.get_by_token(token).user_id
UserOf(tk) == IF tk = "v" THEN "V" ELSE "U"
Slots == 1..NSubscribers
Notifier == NSubscribers + 1
NoStreamHist == [announced |-> FALSE, first |-> FALSE, liveAtAnnounce |-> FALSE,
                 othersLeft |-> FALSE, offline |-> FALSE, since |-> 0]

\* NotifyManager.__init__: an empty table, a free lock
InitNotify(mates) ==
    /\ hasMate \in [Users -> mates]
    /\ nm_keys = {}
    /\ nm_entry = [tk \in Tokens |-> 0]
    /\ nm_lock = 0
    /\ nm_waiters = <<>>
    /\ nm_pc = [s \in Slots |-> "idle"]
    /\ nm_token = [s \in Slots |-> "-"]
    /\ nm_cancelled = [s \in Slots |-> FALSE]
    /\ nm_queue = [s \in Slots |-> <<>>]
    /\ nm_yielded = [s \in Slots |-> <<>>]
    /\ nm_hist = [s \in Slots |-> NoStreamHist]
    /\ nm_notifier = "idle"
    /\ nm_called = 0
    /\ nm_sent = 0

\* ServerClientConnection.__init__ for one accepted client of the threaded
\* Server: the socket gets a timeout when either timeout is set
InitThreaded(reads, writes) ==
    /\ th_read_timeout \in reads
    /\ th_write_timeout \in writes
    /\ th_sock_timeout = (th_read_timeout \/ th_write_timeout)
    /\ th_pc = "recv"
    /\ th_connected = TRUE
    /\ th_peerGone = FALSE
    /\ th_active = {}
    /\ th_prod = [i \in Ids |-> "none"]
    /\ th_yielded = [i \in Ids |-> 0]
    /\ th_wire = <<>>
    /\ th_calls = <<>>
    /\ th_budget = MaxPackets
    /\ th_cut = FALSE

\* SubscriptionIterator.__init__, for a handle of any id
InitHandle ==
    /\ h_id \in Ids
    /\ h_active = TRUE
    /\ h_ended = FALSE
    /\ h_connected = TRUE
    /\ h_scope = "in"
    /\ h_sent = <<>>
    /\ h_got = <<>>
    /\ h_ncancel = 0

\* a handle that is not looked at
InitNoHandle ==
    /\ h_id = "a"
    /\ h_active = TRUE
    /\ h_ended = FALSE
    /\ h_connected = TRUE
    /\ h_scope = "out"
    /\ h_sent = <<>>
    /\ h_got = <<>>
    /\ h_ncancel = 0

\* a Python value: its kind, the chunks of a scalar (or the names of an enum
\* member or a record class), and the children of a composite in order
\* (a mapping's children are key, value, key, value, ...)
Value(tag, atom, items) == [tag |-> tag, atom |-> atom, items |-> items]
None == Value("none", <<>>, <<>>)
NoOut == [done |-> FALSE, raises |-> FALSE, value |-> None, all |-> FALSE]

\* no value is being serialized
InitNoValue ==
    /\ s_val = None
    /\ s_depth = 0
    /\ s_out = NoOut

\* Server.__init__ of libs/htcp: no client, the accept loop not started on any
InitLegacy(maxes) ==
    /\ l_max \in maxes
    /\ l_clients = {}
    /\ l_pc = [c \in Conns |-> "none"]
    /\ l_loop = 0
    /\ l_current = 0

\* the writer threads of a client socket, nothing written yet
Writers == {"reader"} \cup Ids
InitWrites ==
    /\ w_left = [t \in Writers |-> <<>>]
    /\ w_count = [t \in Writers |-> 0]
    /\ w_stream = <<>>

InitMore ==
    /\ InitNoHandle
    /\ InitNoValue
    /\ InitLegacy({DEFAULT_MAX_CONNECTIONS})
    /\ InitWrites
    /\ p_events = <<>>

\* the parts of the state outside the server under study, at rest
InitRest ==
    /\ InitUp({FALSE})
    /\ InitClient({"Client"})
    /\ InitNotify({FALSE})
    /\ InitThreaded({TRUE}, {TRUE})
    /\ InitMore

InitWith(servers, maxes) ==
    /\ InitServer(servers, maxes)
    /\ InitRest

Init == InitWith({"AsyncServer"}, {DEFAULT_MAX_CONNECTIONS})

\* ------------------------------------------------- _handle_client (reader)
\* The server socket accepts while the server runs and until down() has
\* closed it, which is right after close_all.
Listening ==
    /\ server = "AsyncServer"
    /\ upc \in {"serving", "signalled"}
    /\ running \/ regLock = "close_all"

\* A client connects: asyncio starts _handle_client, which reaches try_add.
ConnectArrive(c) ==
    /\ turn = Idle
    /\ rpc[c] = "init"
    /\ Listening
    /\ rpc' = [rpc EXCEPT ![c] = "try_add"]
    /\ turn' = IF regLock = "free" THEN Reader(c) ELSE Idle
    /\ UNCHANGED <<extVars, server, max_connections, running, regVars, connected, streamClosed,
                   peerGone, read_timeout, handshaken, callVars, wire,
                   subVars, budget, syncVars>>

\* the while condition of the reader loop, and where the reader goes
LoopGoes(c, cn) == IF running /\ cn[c] THEN "recv" ELSE "exit"
TurnGoes(c, cn) == IF running /\ cn[c] THEN Idle ELSE Reader(c)

\* try_add under the registry lock, then either the rejection (writer.close,
\* no packet) or the entry into the reader loop.
Accept(c) ==
    /\ turn \in {Idle, Reader(c)}
    /\ rpc[c] = "try_add"
    /\ regLock = "free"
    /\ IF RegistryFull(Cardinality(connections), max_connections)
       THEN /\ rpc' = [rpc EXCEPT ![c] = "rejected"]
            /\ streamClosed' = [streamClosed EXCEPT ![c] = TRUE]
            /\ turn' = Idle
            /\ UNCHANGED <<connections, connected, read_timeout>>
       ELSE /\ connections' = connections \cup {c}
            /\ connected' = [connected EXCEPT ![c] = TRUE]
            /\ read_timeout' = [read_timeout EXCEPT ![c] = TRUE]
            /\ rpc' = [rpc EXCEPT ![c] = LoopGoes(c, connected')]
            /\ turn' = TurnGoes(c, connected')
            /\ UNCHANGED streamClosed
    /\ UNCHANGED <<extVars, server, max_connections, running, regLock, closing, peerGone,
                   handshaken, callVars, wire, subVars, budget, syncVars>>

ReaderIdleNever(c) == TRUE
\* the reader awaits _process_packet before it reads the next packet
ReaderIdle(c) == pending[c] = {}

CanRead(c) ==
    /\ turn = Idle
    /\ rpc[c] = "recv"
    /\ ReaderIdle(c)

PacketArrives(c) ==
    /\ CanRead(c)
    /\ ~peerGone[c]
    /\ ~streamClosed[c]
    /\ budget > 0
    /\ budget' = budget - 1

\* _handle_handshake
RecvHandshake(c, p) ==
    /\ p.type = "handshake_request"
    /\ PacketArrives(c)
    /\ handshaken' = [handshaken EXCEPT ![c] = TRUE]
    /\ wire' = WireAfter(wire, c, HandshakeResponse)
    /\ connected' = ConnectedAfter(connected, c)
    /\ rpc' = [rpc EXCEPT ![c] = LoopGoes(c, connected')]
    /\ turn' = TurnGoes(c, connected')
    /\ UNCHANGED <<extVars, server, max_connections, running, regVars, streamClosed, peerGone,
                   read_timeout, callVars, subVars, syncVars>>

\* ------------------------------------------------------ argument coercion
\* Declared parameter types and decoded values, as far as convert_to_type
\* tells them apart.
IntType == [t |-> "int"]
EnumType == [t |-> "enum", members |-> {"RED", "GREEN"}]
RecordType == [t |-> "record", required |-> {"id"}]
OptionalOf(type) == [t |-> "optional", of |-> type]

NoneValue == [v |-> "none"]
IntValue == [v |-> "int"]
EnumSentinel(member) == [v |-> "enum_dict", member |-> member]
Mapping(keys) == [v |-> "dict", keys |-> keys]
EnumMember(member) == [v |-> "enum", member |-> member]
RecordOf(keys) == [v |-> "record", keys |-> keys]

Returns(value) == [raises |-> FALSE, value |-> value]
Raises == [raises |-> TRUE, value |-> NoneValue]

\* isinstance(value, expected_type)
IsInstance(value, type) ==
    \/ value.v = "int" /\ type.t = "int"
    \/ value.v = "enum" /\ type.t = "enum"
    \/ value.v = "record" /\ type.t = "record"

\* convert_to_type: None and a value of the declared type pass through; the
\* enum sentinel is looked up by member name (KeyError when unknown); a
\* mapping for a dataclass is passed to its constructor (TypeError when a
\* required field is missing); anything else is returned as it came.
convert_to_type(value, expected_type) ==
    LET type == IF expected_type.t = "optional" THEN expected_type.of
                ELSE expected_type
    IN CASE value.v = "none" -> Returns(value)
         [] IsInstance(value, type) -> Returns(value)
         [] value.v = "enum_dict" ->
               IF type.t = "enum"
               THEN IF value.member \in type.members
                    THEN Returns(EnumMember(value.member))
                    ELSE Raises
               ELSE Returns(value)
         [] type.t = "record" /\ value.v = "dict" ->
               IF type.required \subseteq value.keys
               THEN Returns(RecordOf(type.required))
               ELSE Raises
         [] OTHER -> Returns(value)

\* The argument of each kind of call packet and the type its handler
\* declares for it: a well-typed value, an unknown enum member, a mapping
\* without a required field, and a value of the wrong shape.
Argument(args) ==
    CASE args = "bad" -> [value |-> EnumSentinel("PURPLE"), type |-> EnumType]
      [] args = "missing_field" -> [value |-> Mapping({}), type |-> RecordType]
      [] args = "wrong_shape" -> [value |-> IntValue, type |-> OptionalOf(RecordType)]
      [] OTHER -> [value |-> IntValue, type |-> IntType]

\* prepare_arguments raises when convert_to_type does
prepare_arguments(args) == convert_to_type(Argument(args).value, Argument(args).type)

\* history of one call: what was asked, whether it has been answered,
\* whether the stream was writable then and whether the client stayed connected
Asked(p, st, sent, stays) ==
    [code |-> p.code, args |-> p.args, st |-> st, sent |-> sent, stays |-> stays]

\* _handle_transaction up to the handler: the replies that need no handler
\* (undecodable payload, unknown code, argument failure), else the handler
\* is awaited (inline for a coroutine, in the executor for a sync function).
RecvCall(c, p) ==
    /\ p.type = "transaction_call"
    /\ PacketArrives(c)
    /\ nCalls' = [nCalls EXCEPT ![c] = @ + 1]
    /\ LET k == nCalls'[c]
           reply == CASE p.args = "malformed" -> ErrorPacket(INTERNAL_ERROR, k)
                      [] p.code \notin Codes -> UnknownTransaction(p.code, k)
                      [] OTHER -> TransactionResult(INVALID_ARGUMENTS, k)
       IN IF p.args # "malformed" /\ p.code \in Codes /\ ~prepare_arguments(p.args).raises
          THEN /\ pending' = [pending EXCEPT ![c] = @ \cup {[call |-> k, code |-> p.code]}]
               /\ calls' = [calls EXCEPT ![c] = Append(@, Asked(p, "running", FALSE, FALSE))]
               /\ UNCHANGED <<wire, connected, rpc, turn>>
          ELSE /\ wire' = WireAfter(wire, c, reply)
               /\ connected' = ConnectedAfter(connected, c)
               /\ calls' = [calls EXCEPT ![c] =
                                Append(@, Asked(p, "replied", WriteOk(c), connected'[c]))]
               /\ rpc' = [rpc EXCEPT ![c] = LoopGoes(c, connected')]
               /\ turn' = TurnGoes(c, connected')
               /\ UNCHANGED pending
    /\ UNCHANGED <<extVars, server, max_connections, running, regVars, streamClosed, peerGone,
                   read_timeout, handshaken, subVars, syncVars>>

\* str(e) of what the handler, or the serializer on its result, raised
Reason(code) == "raised by " \o code

HandlerRepliesLoseBlob(h) ==
    IF h.code = "blob" THEN <<>>
    ELSE <<IF h.code = "echo" THEN TransactionResult(SUCCESS, h.call)
           ELSE FailureResult(EXECUTION_ERROR, h.call, Reason(h.code))>>
\* What the "Execute transaction" block writes: the success result, or the
\* execution-error result when the handler raises or when to_packet raises
\* on a result the serializer rejects (the same try block).
HandlerReplies(h) ==
    <<IF h.code = "echo" THEN TransactionResult(SUCCESS, h.call)
      ELSE FailureResult(EXECUTION_ERROR, h.call, Reason(h.code))>>

\* loop.run_in_executor(None, lambda: trans.func(**prepared_args)) when the
\* sync handler raises StopIteration: asyncio.Future.set_exception refuses a
\* StopIteration.  Interpreters that raise TypeError there do so inside the
\* event loop's callback, the awaited future is never resolved and
\* _handle_transaction never resumes; the others hand a RuntimeError to the
\* awaiting task, which HandlerDone answers.
HandlerLost(c, h) ==
    /\ turn = Idle
    /\ rpc[c] = "recv"
    /\ h \in pending[c]
    /\ h.code = "stop"
    /\ calls[c][h.call].st = "running"
    /\ calls' = [calls EXCEPT ![c][h.call].st = "lost"]
    /\ UNCHANGED <<extVars, server, max_connections, running, regVars, rpc, connected, streamClosed,
                   peerGone, read_timeout, handshaken, pending, nCalls, wire, subVars,
                   turn, budget, syncVars>>

\* the handler returns or raises
HandlerDone(c, h) ==
    /\ turn = Idle
    /\ rpc[c] = "recv"
    /\ h \in pending[c]
    /\ calls[c][h.call].st = "running"
    /\ pending' = [pending EXCEPT ![c] = @ \ {h}]
    /\ wire' = IF WriteOk(c) THEN [wire EXCEPT ![c] = @ \o HandlerReplies(h)]
                ELSE wire
    /\ connected' = ConnectedAfter(connected, c)
    /\ calls' = [calls EXCEPT ![c][h.call] =
                    [@ EXCEPT !.st = "replied", !.sent = WriteOk(c), !.stays = connected'[c]]]
    /\ rpc' = [rpc EXCEPT ![c] = LoopGoes(c, connected')]
    /\ turn' = TurnGoes(c, connected')
    /\ UNCHANGED <<extVars, server, max_connections, running, regVars, streamClosed, peerGone,
                   read_timeout, handshaken, nCalls, subVars, budget, syncVars>>

\* a packet of a server-to-client type: the else branch of _process_packet
RecvOther(c, p) ==
    /\ p.type = "other"
    /\ PacketArrives(c)
    /\ wire' = WireAfter(wire, c, ErrorPacket(PROTOCOL_ERROR, 0))
    /\ connected' = ConnectedAfter(connected, c)
    /\ rpc' = [rpc EXCEPT ![c] = LoopGoes(c, connected')]
    /\ turn' = TurnGoes(c, connected')
    /\ UNCHANGED <<extVars, server, max_connections, running, regVars, streamClosed, peerGone,
                   read_timeout, handshaken, callVars, subVars, syncVars>>

\* a disconnect packet: client.connected = False, and the loop ends
RecvDisconnect(c, p) ==
    /\ p.type = "disconnect"
    /\ PacketArrives(c)
    /\ connected' = [connected EXCEPT ![c] = FALSE]
    /\ rpc' = [rpc EXCEPT ![c] = "exit"]
    /\ turn' = Reader(c)
    /\ UNCHANGED <<extVars, server, max_connections, running, regVars, streamClosed, peerGone,
                   read_timeout, handshaken, callVars, wire, subVars, syncVars>>


FreeSlots == {s \in Subs : task[s].st = "free"}
NextSlot == CHOOSE s \in FreeSlots : \A o \in FreeSlots : s <= o

\* _handle_subscribe: unknown event type and argument failure are answered
\* with subscribe-error; else the producer task is created, registered under
\* its id (replacing any entry with that id), and the read timeout is lifted.
RecvSubscribe(c, p) ==
    /\ p.type = "subscribe_request"
    /\ PacketArrives(c)
    /\ IF p.event \in Kinds /\ p.args = "ok"
       THEN /\ FreeSlots # {}
            /\ LET s == NextSlot
               IN /\ task' = [task EXCEPT ![s] = NewTask(c, p.sid, p.event)]
                  /\ hist' = [hist EXCEPT ![s] = NoHist]
                  /\ subscriptions' = [subscriptions EXCEPT ![p.sid] = s]
            /\ by_client' = [by_client EXCEPT ![c] = @ \cup {p.sid}]
            /\ read_timeout' = [read_timeout EXCEPT ![c] = FALSE]
            /\ UNCHANGED <<wire, connected>>
       ELSE /\ wire' = WireAfter(wire, c,
                          IF p.args = "malformed"
                          THEN ErrorPacket(INTERNAL_ERROR, 0)
                          ELSE SubscribeError(p.sid,
                                  IF p.event \in Kinds THEN INVALID_ARGUMENTS
                                  ELSE UNKNOWN_TRANSACTION, NoSub))
            /\ connected' = ConnectedAfter(connected, c)
            /\ UNCHANGED <<subVars, read_timeout>>
    /\ rpc' = [rpc EXCEPT ![c] = LoopGoes(c, connected')]
    /\ turn' = TurnGoes(c, connected')
    /\ UNCHANGED <<extVars, server, max_connections, running, regVars, streamClosed, peerGone,
                   handshaken, callVars, syncVars>>

\* a faulty variant: an unsubscribe-request for an unknown id is reported to the
\* client
RecvUnsubscribeReportsUnknown(c, p) ==
    /\ p.type = "unsubscribe_request"
    /\ PacketArrives(c)
    /\ LET s == IF p.args = "malformed" THEN NoSub ELSE subscriptions[p.sid]
       IN IF s = NoSub
          THEN /\ wire' = WireAfter(wire, c, SubscribeError(p.sid, UNKNOWN_TRANSACTION, NoSub))
               /\ UNCHANGED subVars
          ELSE /\ subscriptions' = SubsRemove(subscriptions, p.sid)
               /\ by_client' = ByClientRemove(by_client, subscriptions, p.sid)
               /\ task' = [task EXCEPT ![s] = Cancel(@)]
               /\ hist' = [hist EXCEPT ![s].unsubAt = Len(wire[task[s].conn]),
                                       ![s].cancelAt = TRUE]
               /\ wire' = wire
    /\ rpc' = [rpc EXCEPT ![c] = LoopGoes(c, connected)]
    /\ turn' = TurnGoes(c, connected)
    /\ UNCHANGED <<extVars, server, max_connections, running, regVars, connected, streamClosed,
                   peerGone, read_timeout, handshaken, callVars, syncVars>>

\* _handle_unsubscribe: remove the entry with this id, whoever owns it, and
\* cancel it; an unknown id is a no-op, and so is a payload from_packet
\* cannot decode (the exception is logged).
RecvUnsubscribe(c, p) ==
    /\ p.type = "unsubscribe_request"
    /\ PacketArrives(c)
    /\ LET s == IF p.args = "malformed" THEN NoSub ELSE subscriptions[p.sid]
       IN IF s = NoSub
          THEN UNCHANGED subVars
          ELSE /\ subscriptions' = SubsRemove(subscriptions, p.sid)
               /\ by_client' = ByClientRemove(by_client, subscriptions, p.sid)
               /\ task' = [task EXCEPT ![s] = Cancel(@)]
               /\ hist' = [hist EXCEPT ![s].unsubAt = Len(wire[task[s].conn]),
                                       ![s].cancelAt = TRUE]
    /\ rpc' = [rpc EXCEPT ![c] = LoopGoes(c, connected)]
    /\ turn' = TurnGoes(c, connected)
    /\ UNCHANGED <<extVars, server, max_connections, running, regVars, connected, streamClosed,
                   peerGone, read_timeout, handshaken, callVars, wire, syncVars>>

\* the client goes away (closes or resets its socket)
PeerClose(c) ==
    /\ turn = Idle
    /\ rpc[c] = "recv"
    /\ ~peerGone[c]
    /\ peerGone' = [peerGone EXCEPT ![c] = TRUE]
    /\ UNCHANGED <<extVars, server, max_connections, running, regVars, rpc, connected,
                   streamClosed, read_timeout, handshaken, callVars, wire,
                   subVars, turn, budget, syncVars>>

\* The header of a frame: magic, version, packet-type byte, payload length.
Header(magic, version, type, length) ==
    [magic |-> magic, version |-> version, type |-> type, length |-> length]
\* PacketType: the bytes 0x01..0x05 and 0x11..0x16
PacketTypes == (1..5) \cup (17..22)
\* the headers recv_packet refuses, by what is wrong with them
FramingErrors == {"magic", "version", "type", "length"}
BadHeader(why) ==
    CASE why = "magic" -> Header("HTTP", PROTOCOL_VERSION, 2, 0)
      [] why = "version" -> Header("HTCP", PROTOCOL_VERSION + 1, 2, 0)
      [] why = "type" -> Header("HTCP", PROTOCOL_VERSION, 255, 0)
      [] OTHER -> Header("HTCP", PROTOCOL_VERSION, 2, MAX_PAYLOAD_SIZE + 1)

\* a faulty variant: the payload is read before its length is checked
recv_packet_reads_first(header) ==
    CASE header.magic # "HTCP" -> [raises |-> "ProtocolError", read |-> 0]
      [] header.version # PROTOCOL_VERSION -> [raises |-> "ProtocolError", read |-> 0]
      [] header.type \notin PacketTypes -> [raises |-> "UnknownPacketTypeError", read |-> 0]
      [] header.length > MAX_PAYLOAD_SIZE ->
            [raises |-> "MaxPayloadExceededError", read |-> header.length]
      [] OTHER -> [raises |-> "-", read |-> header.length]

\* recv_packet after the header is read: what it raises, if anything, and
\* how many payload bytes it has read by then
recv_packet(header) ==
    CASE header.magic # "HTCP" -> [raises |-> "ProtocolError", read |-> 0]
      [] header.version # PROTOCOL_VERSION -> [raises |-> "ProtocolError", read |-> 0]
      [] header.type \notin PacketTypes -> [raises |-> "UnknownPacketTypeError", read |-> 0]
      [] header.length > MAX_PAYLOAD_SIZE ->
            [raises |-> "MaxPayloadExceededError", read |-> 0]
      [] OTHER -> [raises |-> "-", read |-> header.length]
\* exceptions.py: the subclasses of ConnectionError, which the read loop
\* leaves without an answer
IsConnectionError(e) == e \in {"ConnectionError", "HandshakeError"}

\* recv_packet raises: end of stream or I/O error, a read timeout (both are
\* HTCPConnectionError: break), or a framing error (error packet, break).
RecvFail(c, why) ==
    /\ CanRead(c)
    /\ \/ /\ why = "eof"
          /\ peerGone[c] \/ streamClosed[c]
          /\ UNCHANGED <<wire, connected, budget>>
       \/ /\ why = "timeout"
          /\ read_timeout[c]
          /\ ~peerGone[c] /\ ~streamClosed[c]
          /\ UNCHANGED <<wire, connected, budget>>
       \/ /\ why \in FramingErrors
          /\ recv_packet(BadHeader(why)).raises # "-"
          /\ ~IsConnectionError(recv_packet(BadHeader(why)).raises)
          /\ ~peerGone[c] /\ ~streamClosed[c]
          /\ budget > 0
          /\ budget' = budget - 1
          /\ wire' = WireAfter(wire, c, ErrorPacket(PROTOCOL_ERROR, 0))
          /\ connected' = ConnectedAfter(connected, c)
    /\ rpc' = [rpc EXCEPT ![c] = "exit"]
    /\ turn' = Reader(c)
    /\ UNCHANGED <<extVars, server, max_connections, running, regVars, streamClosed, peerGone,
                   read_timeout, handshaken, callVars, subVars, syncVars>>

\* AsyncActiveSubscriptionRegistry.cancel_for_client, the first statement of
\* the reader's finally block: pop by_client[address] and, for each id in
\* it, pop subscriptions[id] and cancel that entry.
CancelledBy(c) == {subscriptions[i] : i \in by_client[c]} \ {NoSub}
CancelForClient(c) ==
    /\ turn = Reader(c)
    /\ rpc[c] = "exit"
    /\ subscriptions' = [i \in Ids |-> IF i \in by_client[c] THEN NoSub
                                       ELSE subscriptions[i]]
    /\ by_client' = [by_client EXCEPT ![c] = {}]
    /\ task' = [s \in Subs |-> IF s \in CancelledBy(c) THEN Cancel(task[s])
                               ELSE task[s]]
    /\ hist' = [s \in Subs |-> IF s \in CancelledBy(c)
                               THEN [hist[s] EXCEPT !.cancelAt = TRUE]
                               ELSE hist[s]]
    /\ rpc' = [rpc EXCEPT ![c] = "removing"]
    /\ turn' = IF regLock = "free" THEN Reader(c) ELSE Idle
    /\ UNCHANGED <<extVars, server, max_connections, running, regVars, connected, streamClosed,
                   peerGone, read_timeout, handshaken, callVars, wire, budget,
                   syncVars>>

\* the rest of the finally block: registry remove (under the lock), then
\* client.close()
FinallyRemove(c) ==
    /\ turn \in {Idle, Reader(c)}
    /\ rpc[c] = "removing"
    /\ regLock = "free"
    /\ connections' = connections \ {c}
    /\ connected' = [connected EXCEPT ![c] = FALSE]
    /\ streamClosed' = [streamClosed EXCEPT ![c] = TRUE]
    /\ rpc' = [rpc EXCEPT ![c] = "done"]
    /\ turn' = Idle
    /\ UNCHANGED <<extVars, server, max_connections, running, regLock, closing, peerGone,
                   read_timeout, handshaken, callVars, wire, subVars, budget,
                   syncVars>>

\* ------------------------------------------------------ AsyncServer.down
\* down(): clear the running flag and enter close_all, which holds the
\* registry lock while it closes the registered connections one by one.
DownBegin ==
    /\ turn = Idle
    /\ server = "AsyncServer"
    /\ running
    /\ regLock = "free"
    /\ running' = FALSE
    /\ regLock' = "close_all"
    /\ closing' = connections
    /\ UNCHANGED <<extVars, server, max_connections, connections, rpc, connected, streamClosed,
                   peerGone, read_timeout, handshaken, callVars, wire,
                   subVars, turn, budget, syncVars>>

\* close_all: conn.close() of one registered connection
CloseOne(c) ==
    /\ turn = Idle
    /\ regLock = "close_all"
    /\ c \in closing
    /\ closing' = closing \ {c}
    /\ connected' = [connected EXCEPT ![c] = FALSE]
    /\ streamClosed' = [streamClosed EXCEPT ![c] = TRUE]
    /\ UNCHANGED <<extVars, server, max_connections, running, connections, regLock, rpc,
                   peerGone, read_timeout, handshaken, callVars, wire,
                   subVars, turn, budget, syncVars>>

\* close_all: clear the registry and release the lock
CloseAllEnd ==
    /\ turn = Idle
    /\ regLock = "close_all"
    /\ closing = {}
    /\ connections' = {}
    /\ regLock' = "free"
    /\ UNCHANGED <<extVars, server, max_connections, running, closing, rpc, connected,
                   streamClosed, peerGone, read_timeout, handshaken, callVars,
                   wire, subVars, turn, budget, syncVars>>


\* ------------------------------------------------ _run_subscription (producer)
LiveConn(c) == connected[c] /\ running /\ WriteOk(c)

\* The task's first turn.  A task cancelled before it ever ran ends without
\* running its body.  Else it looks up the entry registered under its id and
\* enters the loop: an async generator runs to its first suspension, a sync
\* generator is tested and handed to the executor.
ProducerStart(s) ==
    /\ turn = Idle
    /\ task[s].st = "created"
    /\ LET t == task[s]
           r == subscriptions[t.id]
       IN IF t.cancelReq
          THEN /\ task' = [task EXCEPT ![s].st = "done", ![s].cancelReq = FALSE]
               /\ turn' = Idle
          ELSE IF IsAsync(t.kind)
          THEN /\ task' = [task EXCEPT ![s].st = "gen", ![s].ref = r]
               /\ turn' = Idle
          ELSE IF MustBreak(r, t.conn, connected)
          THEN /\ task' = [task EXCEPT ![s].st = "ending", ![s].ref = r]
               /\ turn' = Producer(s)
          ELSE /\ task' = [task EXCEPT ![s].st = "exec", ![s].ref = r]
               /\ turn' = Idle
    /\ hist' = [hist EXCEPT ![s] = Turned(@)]
    /\ UNCHANGED <<extVars, server, max_connections, running, regVars, rpc, connected,
                   streamClosed, peerGone, read_timeout, handshaken, callVars,
                   wire, subscriptions, by_client, budget, syncVars>>

\* the data packet for the n-th value, and its place in the history
SendData(s, v) ==
    /\ wire' = WireAfter(wire, task[s].conn, SubscribeData(task[s].id, v, s))
    /\ connected' = ConnectedAfter(connected, task[s].conn)
    /\ hist' = [hist EXCEPT ![s] = Turned(@)]

\* An async generator yields its next value: the loop body tests for
\* cancellation and either breaks or sends subscribe-data; the write may
\* leave the task suspended in drain().
GenYield(s) ==
    /\ turn = Idle
    /\ task[s].st = "gen"
    /\ ~task[s].cancelReq
    /\ task[s].kind \in {"ticks", "forever", "subscribe"}
    /\ task[s].n < MaxYield
    /\ LET t == task[s]
       IN IF MustBreak(t.ref, t.conn, connected)
          THEN /\ task' = [task EXCEPT ![s].st = "ending", ![s].n = @ + 1]
               /\ turn' = Producer(s)
               /\ hist' = [hist EXCEPT ![s] = Turned(@)]
               /\ UNCHANGED <<wire, connected>>
          ELSE /\ \E next \in {"gen", "drain"} :
                     task' = [task EXCEPT ![s].st = next, ![s].n = @ + 1]
               /\ turn' = Idle
               /\ SendData(s, t.n + 1)
    /\ UNCHANGED <<extVars, server, max_connections, running, regVars, rpc, streamClosed,
                   peerGone, read_timeout, handshaken, callVars,
                   subscriptions, by_client, budget, syncVars>>

\* drain() returns: the loop asks the generator for its next value
DrainDone(s) ==
    /\ turn = Idle
    /\ task[s].st = "drain"
    /\ ~task[s].cancelReq
    /\ task' = [task EXCEPT ![s].st = "gen"]
    /\ hist' = [hist EXCEPT ![s] = Turned(@)]
    /\ UNCHANGED <<extVars, server, max_connections, running, regVars, rpc, connected,
                   streamClosed, peerGone, read_timeout, handshaken, callVars,
                   wire, subscriptions, by_client, turn, budget, syncVars>>

\* a finite async generator returns: the loop ends normally
GenReturn(s) ==
    /\ turn = Idle
    /\ task[s].st = "gen"
    /\ ~task[s].cancelReq
    /\ task[s].kind = "ticks"
    /\ task[s].n = MaxYield
    /\ task' = [task EXCEPT ![s].st = "ending"]
    /\ hist' = [hist EXCEPT ![s] =
                  Turned([@ EXCEPT !.normalEnd = LiveConn(task[s].conn)])]
    /\ turn' = Producer(s)
    /\ UNCHANGED <<extVars, server, max_connections, running, regVars, rpc, connected,
                   streamClosed, peerGone, read_timeout, handshaken, callVars,
                   wire, subscriptions, by_client, budget, syncVars>>

\* the finally block of _run_subscription: remove(subscription_id)
RemoveOwn(s) ==
    /\ subscriptions' = SubsRemove(subscriptions, task[s].id)
    /\ by_client' = ByClientRemove(by_client, subscriptions, task[s].id)

\* except Exception: subscribe-error if the client is connected; finally
FailWith(s) ==
    /\ IF connected[task[s].conn]
       THEN /\ wire' = WireAfter(wire, task[s].conn,
                          SubscribeError(task[s].id, EXECUTION_ERROR, s))
            /\ connected' = ConnectedAfter(connected, task[s].conn)
       ELSE UNCHANGED <<wire, connected>>
    /\ RemoveOwn(s)
    /\ task' = [task EXCEPT ![s].st = "done"]
    /\ turn' = Idle

\* the generator raises
GenRaise(s) ==
    /\ turn = Idle
    /\ task[s].st = "gen"
    /\ ~task[s].cancelReq
    /\ task[s].kind = "boom"
    /\ FailWith(s)
    /\ hist' = [hist EXCEPT ![s] = Turned(@)]
    /\ UNCHANGED <<extVars, server, max_connections, running, regVars, rpc, streamClosed,
                   peerGone, read_timeout, handshaken, callVars, budget,
                   syncVars>>

\* run_in_executor(None, next, generator) completes with a value: send it,
\* test again at the top of the loop, hand the generator back to the executor
ExecValue(s) ==
    /\ turn = Idle
    /\ task[s].st = "exec"
    /\ ~task[s].cancelReq
    /\ task[s].n < MaxYield
    /\ SendData(s, task[s].n + 1)
    /\ LET t == task[s]
       IN IF MustBreak(t.ref, t.conn, connected')
          THEN /\ task' = [task EXCEPT ![s].st = "ending", ![s].n = @ + 1]
               /\ turn' = Producer(s)
          ELSE /\ task' = [task EXCEPT ![s].n = @ + 1]
               /\ turn' = Idle
    /\ UNCHANGED <<extVars, server, max_connections, running, regVars, rpc, streamClosed,
                   peerGone, read_timeout, handshaken, callVars,
                   subscriptions, by_client, budget, syncVars>>

\* next() raises StopIteration in the executor.  An asyncio future cannot
\* carry StopIteration: depending on the interpreter the await never
\* completes, or it raises RuntimeError, which the except Exception branch
\* reports as a subscribe-error.  The except StopIteration branch is never
\* taken.
ExecStop(s) ==
    /\ turn = Idle
    /\ task[s].st = "exec"
    /\ ~task[s].cancelReq
    /\ task[s].n = MaxYield
    /\ hist' = [hist EXCEPT ![s] =
                  Turned([@ EXCEPT !.normalEnd = LiveConn(task[s].conn)])]
    /\ \/ /\ task' = [task EXCEPT ![s].st = "hung"]
          /\ UNCHANGED <<wire, connected, subscriptions, by_client, turn>>
       \/ FailWith(s)
    /\ UNCHANGED <<extVars, server, max_connections, running, regVars, rpc, streamClosed,
                   peerGone, read_timeout, handshaken, callVars, budget,
                   syncVars>>

\* CancelledError is thrown into the suspended task.  A generator that
\* catches it goes on with its cleanup; else except CancelledError: pass and
\* the finally block end the task.
DeliverCancel(s) ==
    /\ turn = Idle
    /\ task[s].cancelReq
    /\ task[s].st \in {"gen", "drain", "exec", "hung", "cleanup"}
    /\ IF task[s].st = "gen" /\ SwallowsCancel(task[s].kind)
       THEN /\ task' = [task EXCEPT ![s].st = "cleanup", ![s].cancelReq = FALSE]
            /\ UNCHANGED <<subscriptions, by_client>>
       ELSE /\ task' = [task EXCEPT ![s].st = "done", ![s].cancelReq = FALSE]
            /\ RemoveOwn(s)
    /\ hist' = [hist EXCEPT ![s] = Turned(@)]
    /\ UNCHANGED <<extVars, server, max_connections, running, regVars, rpc, connected,
                   streamClosed, peerGone, read_timeout, handshaken, callVars,
                   wire, turn, budget, syncVars>>

\* the cleanup of a generator that caught its cancellation is over: the
\* generator returns and the loop ends as if it had finished
CleanupDone(s) ==
    /\ turn = Idle
    /\ task[s].st = "cleanup"
    /\ ~task[s].cancelReq
    /\ task' = [task EXCEPT ![s].st = "ending"]
    /\ hist' = [hist EXCEPT ![s] = Turned(@)]
    /\ turn' = Producer(s)
    /\ UNCHANGED <<extVars, server, max_connections, running, regVars, rpc, connected,
                   streamClosed, peerGone, read_timeout, handshaken, callVars,
                   wire, subscriptions, by_client, budget, syncVars>>

\* after the loop: subscribe-end if the client is connected and the server
\* runs; then the finally block
ProducerEnd(s) ==
    /\ turn = Producer(s)
    /\ task[s].st = "ending"
    /\ IF connected[task[s].conn] /\ running
       THEN /\ wire' = WireAfter(wire, task[s].conn, SubscribeEnd(task[s].id, s))
            /\ connected' = ConnectedAfter(connected, task[s].conn)
       ELSE UNCHANGED <<wire, connected>>
    /\ RemoveOwn(s)
    /\ task' = [task EXCEPT ![s].st = "done"]
    /\ turn' = Idle
    /\ UNCHANGED <<extVars, server, max_connections, running, regVars, rpc, streamClosed,
                   peerGone, read_timeout, handshaken, callVars, hist, budget,
                   syncVars>>

\* ------------------------------------- ConnectionRegistry (threaded server)
SLockFreeAlways == TRUE
\* with self._lock: the threading.Lock of the registry
SLockFree == slock = 0

asyncVars == <<running, regVars, rpc, connected, streamClosed, peerGone,
               read_timeout, handshaken, callVars, wire, subVars, turn, budget>>

\* try_add: take the lock and test the bound; a full registry refuses
STryAddBegin(t) ==
    /\ server = "Server"
    /\ SLockFree
    /\ spc[t] = "idle"
    /\ IF SyncRegistryFull(Cardinality(sconnections), max_connections)
       THEN /\ srefused' = TRUE
            /\ UNCHANGED <<slock, spc>>
       ELSE /\ slock' = t
            /\ spc' = [spc EXCEPT ![t] = "adding"]
            /\ UNCHANGED srefused
    /\ UNCHANGED <<extVars, server, max_connections, asyncVars, sconnections>>

\* try_add: insert the connection and release the lock
STryAddEnd(t) ==
    /\ spc[t] = "adding"
    /\ sconnections' = sconnections \cup {t}
    /\ slock' = 0
    /\ spc' = [spc EXCEPT ![t] = "idle"]
    /\ UNCHANGED <<extVars, server, max_connections, asyncVars, srefused>>

\* remove(address), under the lock
SRemove(t) ==
    /\ SLockFree
    /\ t \in sconnections
    /\ sconnections' = sconnections \ {t}
    /\ UNCHANGED <<extVars, server, max_connections, asyncVars, slock, spc, srefused>>

\* close_all, under the lock: close every connection and clear
SCloseAll ==
    /\ SLockFree
    /\ sconnections # {}
    /\ sconnections' = {}
    /\ UNCHANGED <<extVars, server, max_connections, asyncVars, slock, spc, srefused>>


\* ------------------------------------------------------------ specifications
ReaderSteps(c) ==
    \/ ConnectArrive(c)
    \/ Accept(c)
    \/ PeerClose(c)
    \/ \E why \in {"eof", "timeout"} \cup FramingErrors : RecvFail(c, why)
    \/ CancelForClient(c)
    \/ FinallyRemove(c)

DownSteps ==
    \/ DownBegin
    \/ \E c \in Conns : CloseOne(c)
    \/ CloseAllEnd

SyncSteps(t) ==
    \/ STryAddBegin(t)
    \/ STryAddEnd(t)
    \/ SRemove(t)
    \/ SCloseAll

\* Admission: NConns clients against a bound drawn from 0..MaxK, on the
\* async server and on the threaded server's registry.
InitAdmit == InitWith({"AsyncServer", "Server"}, 0..MaxK)
NextAdmit ==
    \/ \E c \in Conns :
          \/ ReaderSteps(c)
          \/ \E p \in HandshakePackets : RecvHandshake(c, p)
    \/ DownSteps
    \/ \E t \in Conns : SyncSteps(t)
SpecAdmit == InitAdmit /\ [][NextAdmit]_vars

\* Calls: the clients send handshakes, every kind of transaction-call,
\* packets of a wrong type and disconnects.
NextCall ==
    \/ \E c \in Served :
          \/ ReaderSteps(c)
          \/ \E p \in HandshakePackets : RecvHandshake(c, p)
          \/ \E p \in CallPackets : RecvCall(c, p)
          \/ \E p \in OtherPackets : RecvOther(c, p)
          \/ \E p \in DisconnectPackets : RecvDisconnect(c, p)
          \/ \E h \in pending[c] : HandlerDone(c, h)
    \/ DownSteps
SpecCall == Init /\ [][NextCall]_vars

\* What a client that follows the handshake contract sends once its
\* handshake is done, with the producers in `kinds` registered.
SessionSteps(c, kinds) ==
    /\ handshaken[c]
    /\ \/ \E p \in SubscribePackets(kinds) : RecvSubscribe(c, p)
       \/ \E p \in UnsubscribePackets : RecvUnsubscribe(c, p)
       \/ \E p \in DisconnectPackets : RecvDisconnect(c, p)

Handshake(c) ==
    /\ ~handshaken[c]
    /\ \E p \in HandshakePackets : RecvHandshake(c, p)

\* Streams: producers that end by themselves, next to calls, unsubscribes,
\* disconnects and failures of the connection, on a server that stays up.
NextStream ==
    \/ \E c \in Served :
          \/ ReaderSteps(c)
          \/ Handshake(c)
          \/ SessionSteps(c, {"ticks", "sync_ticks"})
          \/ handshaken[c] /\ \E p \in EchoPackets : RecvCall(c, p)
          \/ \E h \in pending[c] : HandlerDone(c, h)
    \/ \E s \in Subs :
          \/ ProducerStart(s)
          \/ GenYield(s)
          \/ DrainDone(s)
          \/ GenReturn(s)
          \/ ExecValue(s)
          \/ ExecStop(s)
          \/ DeliverCancel(s)
          \/ ProducerEnd(s)
SpecStream == Init /\ [][NextStream]_vars

\* Cancellation: producers that never end by themselves, cancelled by
\* unsubscribe, by the end of their connection or by shutdown.
Next ==
    \/ \E c \in Served :
          \/ ReaderSteps(c)
          \/ Handshake(c)
          \/ SessionSteps(c, {"forever", "subscribe"})
          \/ handshaken[c] /\ \E p \in EchoPackets : RecvCall(c, p)
          \/ \E h \in pending[c] : HandlerDone(c, h)
    \/ \E s \in Subs :
          \/ ProducerStart(s)
          \/ GenYield(s)
          \/ DrainDone(s)
          \/ DeliverCancel(s)
          \/ CleanupDone(s)
          \/ ProducerEnd(s)
    \/ DownSteps
Spec == Init /\ [][Next]_vars

\* -------------------------------------------- AsyncServer.up and shutdown
\* _signal_handler: SIGINT or SIGTERM sets the shutdown event
SignalArrives ==
    /\ turn = Idle
    /\ server = "AsyncServer"
    /\ upc = "serving"
    /\ running
    /\ upc' = "signalled"
    /\ UNCHANGED <<coreVars, waitsForClients, clientVars, notifyVars, thrVars, moreVars>>

\* up() wakes from _shutdown_event.wait(), which the signal handler or
\* down() has set, and leaves `async with self._server`: the listen socket
\* is closed and wait_closed() is awaited
UpWakes ==
    /\ turn = Idle
    /\ upc = "signalled" \/ (upc = "serving" /\ ~running)
    /\ upc' = "aexit"
    /\ UNCHANGED <<coreVars, waitsForClients, clientVars, notifyVars, thrVars, moreVars>>

\* no accepted connection has its transport still open
AllDetached == \A c \in Conns : rpc[c] = "init" \/ streamClosed[c]

\* Server.wait_closed() returns: at once on interpreters whose wait_closed
\* does not wait for connections, else when the last connection is gone
WaitClosed ==
    /\ turn = Idle
    /\ upc = "aexit"
    /\ waitsForClients => AllDetached
    /\ upc' = "finally"
    /\ UNCHANGED <<coreVars, waitsForClients, clientVars, notifyVars, thrVars, moreVars>>

\* finally: await self.down().  down() returns at once when _running is
\* already cleared; else it clears it and enters close_all.
UpFinally ==
    /\ turn = Idle
    /\ upc = "finally"
    /\ IF running
       THEN /\ regLock = "free"
            /\ running' = FALSE
            /\ regLock' = "close_all"
            /\ closing' = connections
            /\ upc' = "down"
       ELSE /\ upc' = "returned"
            /\ UNCHANGED <<running, regLock, closing>>
    /\ UNCHANGED <<waitsForClients, clientVars, notifyVars, thrVars, moreVars, server, max_connections, connections, rpc,
                   connected, streamClosed, peerGone, read_timeout, handshaken,
                   callVars, wire, subVars, turn, budget, syncVars>>

\* the down() that up() awaits is through close_all: up() returns
UpReturn ==
    /\ turn = Idle
    /\ upc = "down"
    /\ regLock = "free"
    /\ upc' = "returned"
    /\ UNCHANGED <<coreVars, waitsForClients, clientVars, notifyVars, thrVars, moreVars>>

UpSteps ==
    \/ SignalArrives
    \/ UpWakes
    \/ WaitClosed
    \/ UpFinally
    \/ UpReturn

\* Shutdown: one client that may hold subscriptions to an infinite
\* producer and then stays idle; shutdown by signal or by down(), on either
\* kind of interpreter.
InitDown ==
    /\ InitServer({"AsyncServer"}, {DEFAULT_MAX_CONNECTIONS})
    /\ InitUp(BOOLEAN)
    /\ InitClient({"Client"})
    /\ InitNotify({FALSE})
    /\ InitThreaded({TRUE}, {TRUE})
    /\ InitMore
NextDown ==
    \/ \E c \in Served :
          \/ ReaderSteps(c)
          \/ Handshake(c)
          \/ handshaken[c] /\ \E p \in SubscribePackets({"forever"}) : RecvSubscribe(c, p)
    \/ \E s \in Subs :
          \/ ProducerStart(s)
          \/ GenYield(s)
          \/ DrainDone(s)
          \/ DeliverCancel(s)
          \/ ProducerEnd(s)
    \/ DownSteps
    \/ UpSteps
\* What the event loop and the kernel guarantee: a runnable task runs, a
\* closed stream is noticed, a read timeout expires.  Nothing obliges a
\* client to send or to leave, an infinite producer to yield, or anybody to
\* signal or to call down().
FairDown ==
    /\ WF_vars(UpWakes) /\ WF_vars(WaitClosed) /\ WF_vars(UpFinally)
    /\ WF_vars(UpReturn) /\ WF_vars(CloseAllEnd)
    /\ \A c \in Conns :
          /\ WF_vars(CloseOne(c)) /\ WF_vars(Accept(c))
          /\ WF_vars(RecvFail(c, "eof")) /\ WF_vars(RecvFail(c, "timeout"))
          /\ WF_vars(CancelForClient(c)) /\ WF_vars(FinallyRemove(c))
    /\ \A s \in Subs :
          /\ WF_vars(ProducerStart(s)) /\ WF_vars(DrainDone(s))
          /\ WF_vars(DeliverCancel(s)) /\ WF_vars(ProducerEnd(s))
SpecDown == InitDown /\ [][NextDown]_vars /\ FairDown

\* ------------------------------------------- Client.call, AsyncClient.call
\* the lock can be taken by t: threading.RLock goes to any thread that asks
\* while it is free; asyncio.Lock goes to its waiters first come first served
LockFor(t) ==
    /\ clock = 0
    /\ client = "AsyncClient" => (cwaiters # <<>> /\ Head(cwaiters) = t)

Enqueued(t) == IF client = "AsyncClient" THEN Append(cwaiters, t) ELSE cwaiters
Dequeued == IF client = "AsyncClient" THEN Tail(cwaiters) ELSE cwaiters

\* call(): the client is connected; connection.send(packet) asks for the lock
CallBegin(t) ==
    /\ cpc[t] = "idle"
    /\ ncall[t] < MaxCalls
    /\ cpc' = [cpc EXCEPT ![t] = "wait_send"]
    /\ cwaiters' = Enqueued(t)
    /\ UNCHANGED <<coreVars, upVars, notifyVars, thrVars, moreVars, client, clock, cwire, creplies, result, ncall>>

\* connection.send under the lock: the packet goes onto the stream.  The
\* thread leaves the lock at once; the task keeps it while drain() is awaited
SendPacket(t) ==
    /\ cpc[t] = "wait_send"
    /\ LockFor(t)
    /\ cwire' = Append(cwire, <<t, ncall[t] + 1>>)
    /\ cwaiters' = Dequeued
    /\ IF client = "AsyncClient"
       THEN /\ clock' = t
            /\ cpc' = [cpc EXCEPT ![t] = "draining"]
       ELSE /\ clock' = clock
            /\ cpc' = [cpc EXCEPT ![t] = "wait_recv"]
    /\ UNCHANGED <<coreVars, upVars, notifyVars, thrVars, moreVars, client, creplies, result, ncall>>

\* AsyncClientConnection.send returns and releases the lock; call() goes on
\* to connection.receive(), which asks for the lock again
DrainEnd(t) ==
    /\ cpc[t] = "draining"
    /\ clock' = 0
    /\ cwaiters' = Enqueued(t)
    /\ cpc' = [cpc EXCEPT ![t] = "wait_recv"]
    /\ UNCHANGED <<coreVars, upVars, notifyVars, thrVars, moreVars, client, cwire, creplies, result, ncall>>

\* connection.receive takes the lock and waits for a packet
ReceiveBegin(t) ==
    /\ cpc[t] = "wait_recv"
    /\ LockFor(t)
    /\ clock' = t
    /\ cwaiters' = Dequeued
    /\ cpc' = [cpc EXCEPT ![t] = "receiving"]
    /\ UNCHANGED <<coreVars, upVars, notifyVars, thrVars, moreVars, client, cwire, creplies, result, ncall>>

\* recv_packet returns the next packet of the stream; call() returns it
ReceiveEnd(t) ==
    /\ cpc[t] = "receiving"
    /\ creplies # <<>>
    /\ result' = [result EXCEPT ![t] = Head(creplies)]
    /\ creplies' = Tail(creplies)
    /\ clock' = 0
    /\ ncall' = [ncall EXCEPT ![t] = @ + 1]
    /\ cpc' = [cpc EXCEPT ![t] = "idle"]
    /\ UNCHANGED <<coreVars, upVars, notifyVars, thrVars, moreVars, client, cwaiters, cwire>>

\* the server answers the calls of one connection in the order they arrived
ServerAnswers ==
    /\ cwire # <<>>
    /\ creplies' = Append(creplies, Head(cwire))
    /\ cwire' = Tail(cwire)
    /\ UNCHANGED <<coreVars, upVars, notifyVars, thrVars, moreVars, client, cpc, clock, cwaiters, result, ncall>>

\* Concurrent callers on one connected client of either kind.
InitCallers ==
    /\ InitServer({"AsyncServer"}, {DEFAULT_MAX_CONNECTIONS})
    /\ InitUp({FALSE})
    /\ InitClient({"Client", "AsyncClient"})
    /\ InitNotify({FALSE})
    /\ InitThreaded({TRUE}, {TRUE})
    /\ InitMore
NextCallers ==
    \/ \E t \in Threads :
          \/ CallBegin(t)
          \/ SendPacket(t)
          \/ DrainEnd(t)
          \/ ReceiveBegin(t)
          \/ ReceiveEnd(t)
    \/ ServerAnswers
SpecCallers == InitCallers /\ [][NextCallers]_vars

\* ------------------------------------------------------------ NotifyManager
\* asyncio.Lock: free, and t is the first of its waiters
NmLockFor(t) ==
    /\ nm_lock = 0
    /\ nm_waiters # <<>>
    /\ Head(nm_waiters) = t

Without(q, t) == SelectSeq(q, LAMBDA x : x # t)

\* the subscribe() streams of user u that are registered and still open
OpenStreams(u) == {s \in Slots : nm_pc[s] = "streaming" /\ UserOf(nm_token[s]) = u}

\* the tokens of user u that have an entry in _subscriptions[u]
RegisteredIn(entry, u) == {tk \in Tokens : UserOf(tk) = u /\ entry[tk] # 0}

\* is_online(user_id)
IsOnline(u) == u \in nm_keys /\ RegisteredIn(nm_entry, u) # {}

\* get_online_user_ids()
OnlineUserIds == nm_keys

\* self._subscriptions[user_id][token] = queue, and what the stream saw
StoreQueue(s) ==
    /\ nm_entry' = [nm_entry EXCEPT ![nm_token[s]] = s]
    /\ nm_hist' = [nm_hist EXCEPT ![s].first = OpenStreams(UserOf(nm_token[s])) = {},
                                  ![s].since = nm_sent]

\* subscribe(token) is called: tokens_repo.get_by_token is awaited
NmSubscribe(s, tk) ==
    /\ nm_pc[s] = "idle"
    /\ nm_token' = [nm_token EXCEPT ![s] = tk]
    /\ nm_pc' = [nm_pc EXCEPT ![s] = "lookup"]
    /\ UNCHANGED <<coreVars, upVars, clientVars, thrVars, moreVars, hasMate, nm_keys, nm_entry, nm_lock,
                   nm_waiters, nm_cancelled, nm_queue, nm_yielded, nm_hist,
                   nm_notifier, nm_called, nm_sent>>

\* the token is found, the queue is created, the lock is asked for
LookupDone(s) ==
    /\ nm_pc[s] = "lookup"
    /\ nm_waiters' = Append(nm_waiters, s)
    /\ nm_pc' = [nm_pc EXCEPT ![s] = "wait_reg"]
    /\ UNCHANGED <<coreVars, upVars, clientVars, thrVars, moreVars, hasMate, nm_keys, nm_entry, nm_lock,
                   nm_token, nm_cancelled, nm_queue, nm_yielded, nm_hist,
                   nm_notifier, nm_called, nm_sent>>

\* under the lock: a user not in the table gets an empty mapping and
\* _broadcast_user_online is awaited with the lock held; else the queue is
\* stored and the lock released
RegisterBegin(s) ==
    /\ nm_pc[s] = "wait_reg"
    /\ NmLockFor(s)
    /\ nm_waiters' = Tail(nm_waiters)
    /\ IF UserOf(nm_token[s]) \notin nm_keys
       THEN /\ nm_keys' = nm_keys \cup {UserOf(nm_token[s])}
            /\ nm_lock' = s
            /\ nm_hist' = [nm_hist EXCEPT
                              ![s].announced = TRUE,
                              ![s].liveAtAnnounce = OpenStreams(UserOf(nm_token[s])) # {}]
            /\ nm_pc' = [nm_pc EXCEPT ![s] = "online_repo"]
            /\ UNCHANGED nm_entry
       ELSE /\ StoreQueue(s)
            /\ nm_pc' = [nm_pc EXCEPT ![s] = "streaming"]
            /\ UNCHANGED <<nm_keys, nm_lock>>
    /\ UNCHANGED <<coreVars, upVars, clientVars, thrVars, moreVars, hasMate, nm_token, nm_cancelled,
                   nm_queue, nm_yielded, nm_notifier, nm_called, nm_sent>>

\* _broadcast_user_online has the user's chats and their members: with a
\* chat-mate it awaits notify_user(mate), which asks for the lock this task
\* holds; with none it returns, the queue is stored and the lock released
OnlineRepoDone(s) ==
    /\ nm_pc[s] = "online_repo"
    /\ IF hasMate[UserOf(nm_token[s])]
       THEN /\ nm_waiters' = Append(nm_waiters, s)
            /\ nm_pc' = [nm_pc EXCEPT ![s] = "online_notify"]
            /\ UNCHANGED <<nm_entry, nm_hist, nm_lock>>
       ELSE /\ StoreQueue(s)
            /\ nm_lock' = 0
            /\ nm_pc' = [nm_pc EXCEPT ![s] = "streaming"]
            /\ UNCHANGED nm_waiters
    /\ UNCHANGED <<coreVars, upVars, clientVars, thrVars, moreVars, hasMate, nm_keys, nm_token,
                   nm_cancelled, nm_queue, nm_yielded, nm_notifier, nm_called, nm_sent>>

\* event = await queue.get(); yield event
Consume(s) ==
    /\ nm_pc[s] = "streaming"
    /\ nm_queue[s] # <<>>
    /\ nm_yielded' = [nm_yielded EXCEPT ![s] = Append(@, Head(nm_queue[s]))]
    /\ nm_queue' = [nm_queue EXCEPT ![s] = Tail(@)]
    /\ UNCHANGED <<coreVars, upVars, clientVars, thrVars, moreVars, hasMate, nm_keys, nm_entry, nm_lock,
                   nm_waiters, nm_pc, nm_token, nm_cancelled, nm_hist,
                   nm_notifier, nm_called, nm_sent>>

\* the task iterating the stream is cancelled.  Before the try block the
\* CancelledError leaves subscribe(), releasing the lock if it is held; in
\* the loop it is caught and the finally block calls _unsubscribe
NmCancel(s) ==
    /\ ~nm_cancelled[s]
    /\ nm_pc[s] \in {"lookup", "wait_reg", "online_repo", "online_notify", "streaming"}
    /\ nm_cancelled' = [nm_cancelled EXCEPT ![s] = TRUE]
    /\ nm_pc' = [nm_pc EXCEPT ![s] = IF @ = "streaming" THEN "wait_unreg" ELSE "done"]
    /\ nm_lock' = IF nm_pc[s] \in {"online_repo", "online_notify"} THEN 0 ELSE nm_lock
    /\ nm_waiters' = IF nm_pc[s] = "streaming" THEN Append(nm_waiters, s)
                     ELSE Without(nm_waiters, s)
    /\ UNCHANGED <<coreVars, upVars, clientVars, thrVars, moreVars, hasMate, nm_keys, nm_entry, nm_token,
                   nm_queue, nm_yielded, nm_hist, nm_notifier, nm_called, nm_sent>>

\* _unsubscribe under the lock: pop the token, delete the user when its
\* mapping is empty
Unregister(s) ==
    /\ nm_pc[s] = "wait_unreg"
    /\ NmLockFor(s)
    /\ nm_waiters' = Tail(nm_waiters)
    /\ IF UserOf(nm_token[s]) \in nm_keys
       THEN /\ nm_entry' = [nm_entry EXCEPT ![nm_token[s]] = 0]
            /\ nm_keys' = IF RegisteredIn(nm_entry', UserOf(nm_token[s])) = {}
                          THEN nm_keys \ {UserOf(nm_token[s])}
                          ELSE nm_keys
            /\ nm_hist' = [nm_hist EXCEPT ![s].othersLeft =
                              RegisteredIn(nm_entry', UserOf(nm_token[s])) # {}]
       ELSE UNCHANGED <<nm_entry, nm_keys, nm_hist>>
    /\ nm_pc' = [nm_pc EXCEPT ![s] = "offline_repo"]
    /\ UNCHANGED <<coreVars, upVars, clientVars, thrVars, moreVars, hasMate, nm_lock, nm_token,
                   nm_cancelled, nm_queue, nm_yielded, nm_notifier, nm_called, nm_sent>>

\* _unsubscribe after the lock: update_last_online(user_id) and
\* _broadcast_user_offline(user_id), whatever the table holds
OfflineCalls(s) ==
    /\ nm_pc[s] = "offline_repo"
    /\ nm_hist' = [nm_hist EXCEPT ![s].offline = TRUE]
    /\ IF hasMate[UserOf(nm_token[s])]
       THEN /\ nm_waiters' = Append(nm_waiters, s)
            /\ nm_pc' = [nm_pc EXCEPT ![s] = "offline_notify"]
       ELSE /\ nm_pc' = [nm_pc EXCEPT ![s] = "done"]
            /\ UNCHANGED nm_waiters
    /\ UNCHANGED <<coreVars, upVars, clientVars, thrVars, moreVars, hasMate, nm_keys, nm_entry, nm_lock,
                   nm_token, nm_cancelled, nm_queue, nm_yielded, nm_notifier,
                   nm_called, nm_sent>>

\* notify_user(mate, user_offline): the mate holds no stream here
OfflineNotify(s) ==
    /\ nm_pc[s] = "offline_notify"
    /\ NmLockFor(s)
    /\ nm_waiters' = Tail(nm_waiters)
    /\ nm_pc' = [nm_pc EXCEPT ![s] = "done"]
    /\ UNCHANGED <<coreVars, upVars, clientVars, thrVars, moreVars, hasMate, nm_keys, nm_entry, nm_lock,
                   nm_token, nm_cancelled, nm_queue, nm_yielded, nm_hist,
                   nm_notifier, nm_called, nm_sent>>

\* notify_user("U", event) is called and asks for the lock
NotifyBegin ==
    /\ nm_notifier = "idle"
    /\ nm_called < MaxEvents
    /\ nm_called' = nm_called + 1
    /\ nm_waiters' = Append(nm_waiters, Notifier)
    /\ nm_notifier' = "wait"
    /\ UNCHANGED <<coreVars, upVars, clientVars, thrVars, moreVars, hasMate, nm_keys, nm_entry, nm_lock,
                   nm_pc, nm_token, nm_cancelled, nm_queue, nm_yielded, nm_hist,
                   nm_sent>>

\* the queues one put per registered queue reaches
PutAll(event) ==
    [s \in Slots |-> IF \E tk \in RegisteredIn(nm_entry, "U") : nm_entry[tk] = s
                     THEN Append(nm_queue[s], event)
                     ELSE nm_queue[s]]

\* notify_user under the lock: nothing for an absent user, else one put on
\* each queue of the user; the queues are unbounded, put does not suspend
NotifyRun ==
    /\ nm_notifier = "wait"
    /\ NmLockFor(Notifier)
    /\ nm_waiters' = Tail(nm_waiters)
    /\ nm_queue' = IF "U" \in nm_keys THEN PutAll(nm_called) ELSE nm_queue
    /\ nm_sent' = nm_sent + 1
    /\ nm_notifier' = "idle"
    /\ UNCHANGED <<coreVars, upVars, clientVars, thrVars, moreVars, hasMate, nm_keys, nm_entry, nm_lock,
                   nm_pc, nm_token, nm_cancelled, nm_yielded, nm_hist, nm_called>>

\* Streams of two users, with and without chat-mates, and a caller of
\* notify_user.
InitNotifying ==
    /\ InitServer({"AsyncServer"}, {DEFAULT_MAX_CONNECTIONS})
    /\ InitUp({FALSE})
    /\ InitClient({"Client"})
    /\ InitNotify(BOOLEAN)
    /\ InitThreaded({TRUE}, {TRUE})
    /\ InitMore
NextNotify ==
    \/ \E s \in Slots :
          \/ \E tk \in Tokens : NmSubscribe(s, tk)
          \/ LookupDone(s)
          \/ RegisterBegin(s)
          \/ OnlineRepoDone(s)
          \/ Consume(s)
          \/ NmCancel(s)
          \/ Unregister(s)
          \/ OfflineCalls(s)
          \/ OfflineNotify(s)
    \/ NotifyBegin
    \/ NotifyRun
SpecNotify == InitNotifying /\ [][NextNotify]_vars
\* A task that can run does run and a repository call returns; nobody is
\* obliged to subscribe, to cancel, to read its stream or to notify.
FairNotify ==
    /\ WF_vars(NotifyRun)
    /\ \A s \in Slots :
          /\ WF_vars(LookupDone(s)) /\ WF_vars(RegisterBegin(s))
          /\ WF_vars(OnlineRepoDone(s)) /\ WF_vars(Unregister(s))
          /\ WF_vars(OfflineCalls(s)) /\ WF_vars(OfflineNotify(s))
SpecNotifyLive == SpecNotify /\ FairNotify

\* ------------------------------------------------- the threaded Server
\* One accepted client of the threaded Server: its _handle_client thread
\* and the _run_subscription threads of its subscriptions.
ThWriteOk == ~th_peerGone /\ th_pc # "done"
\* _send_packet: a failed send clears client.connected
ThWireAfter(p) == IF ThWriteOk THEN Append(th_wire, p) ELSE th_wire
ThConnectedAfter == IF ThWriteOk THEN th_connected ELSE FALSE
\* while self._running and client.connected
ThLoopGoes(cn) == IF cn THEN "recv" ELSE "exit"

\* recv_packet returns a packet
ThPacketArrives ==
    /\ server = "Server"
    /\ th_pc = "recv"
    /\ ~th_peerGone
    /\ th_budget > 0
    /\ th_budget' = th_budget - 1

\* Server._handle_transaction: the handler runs inline in the reader thread
ThReply(p, k) ==
    CASE p.args = "malformed" -> ErrorPacket(INTERNAL_ERROR, k)
      [] p.code \notin Codes -> UnknownTransaction(p.code, k)
      [] prepare_arguments(p.args).raises -> TransactionResult(INVALID_ARGUMENTS, k)
      [] p.code = "echo" -> TransactionResult(SUCCESS, k)
      [] OTHER -> FailureResult(EXECUTION_ERROR, k, Reason(p.code))

ThCall(p) ==
    /\ p.type = "transaction_call"
    /\ ThPacketArrives
    /\ th_wire' = ThWireAfter(ThReply(p, Len(th_calls) + 1))
    /\ th_connected' = ThConnectedAfter
    /\ th_calls' = Append(th_calls, Asked(p, "replied", ThWriteOk, th_connected'))
    /\ th_pc' = ThLoopGoes(th_connected')
    /\ UNCHANGED <<coreVars, upVars, clientVars, notifyVars, moreVars, th_read_timeout,
                   th_write_timeout, th_sock_timeout, th_peerGone, th_active,
                   th_prod, th_yielded, th_cut>>

\* Server._handle_subscribe: an unknown event type or an argument failure is
\* answered with subscribe-error; else the generator is created, registered
\* and given a thread.  The socket's timeout is left as it is.
ThSubscribe(p) ==
    /\ p.type = "subscribe_request"
    /\ ThPacketArrives
    /\ IF p.event \in Kinds /\ p.args = "ok"
       THEN /\ th_prod[p.sid] = "none"
            /\ th_active' = th_active \cup {p.sid}
            /\ th_prod' = [th_prod EXCEPT ![p.sid] = "running"]
            /\ UNCHANGED <<th_wire, th_connected>>
       ELSE /\ th_wire' = ThWireAfter(SubscribeError(p.sid,
                              IF p.event \in Kinds THEN INVALID_ARGUMENTS
                              ELSE UNKNOWN_TRANSACTION, NoSub))
            /\ th_connected' = ThConnectedAfter
            /\ UNCHANGED <<th_active, th_prod>>
    /\ th_pc' = ThLoopGoes(th_connected')
    /\ UNCHANGED <<coreVars, upVars, clientVars, notifyVars, moreVars, th_read_timeout,
                   th_write_timeout, th_sock_timeout, th_peerGone, th_yielded,
                   th_calls, th_cut>>

\* Server._handle_unsubscribe: remove the entry and cancel it; nothing is sent
ThUnsubscribe(p) ==
    /\ p.type = "unsubscribe_request"
    /\ ThPacketArrives
    /\ th_active' = th_active \ {p.sid}
    /\ th_pc' = ThLoopGoes(th_connected)
    /\ UNCHANGED <<coreVars, upVars, clientVars, notifyVars, moreVars, th_read_timeout,
                   th_write_timeout, th_sock_timeout, th_connected, th_peerGone,
                   th_prod, th_yielded, th_wire, th_calls, th_cut>>

\* recv_packet raises socket.timeout: the socket has a timeout and the
\* client has sent nothing for that long
ThTimeout ==
    /\ server = "Server"
    /\ th_pc = "recv"
    /\ th_sock_timeout
    /\ ~th_peerGone
    /\ th_pc' = "exit"
    /\ th_cut' = (th_active # {})
    /\ UNCHANGED <<coreVars, upVars, clientVars, notifyVars, moreVars, th_read_timeout,
                   th_write_timeout, th_sock_timeout, th_connected, th_peerGone,
                   th_active, th_prod, th_yielded, th_wire, th_calls, th_budget>>

\* the client closes its socket
ThPeerClose ==
    /\ server = "Server"
    /\ th_pc = "recv"
    /\ ~th_peerGone
    /\ th_peerGone' = TRUE
    /\ UNCHANGED <<coreVars, upVars, clientVars, notifyVars, moreVars, th_read_timeout,
                   th_write_timeout, th_sock_timeout, th_pc, th_connected,
                   th_active, th_prod, th_yielded, th_wire, th_calls, th_budget,
                   th_cut>>

\* recv_packet raises HTCPConnectionError: the stream has ended
ThEof ==
    /\ server = "Server"
    /\ th_pc = "recv"
    /\ th_peerGone
    /\ th_pc' = "exit"
    /\ UNCHANGED <<coreVars, upVars, clientVars, notifyVars, moreVars, th_read_timeout,
                   th_write_timeout, th_sock_timeout, th_connected, th_peerGone,
                   th_active, th_prod, th_yielded, th_wire, th_calls, th_budget,
                   th_cut>>

\* the finally block of Server._handle_client: cancel_for_client, remove,
\* close
ThFinally ==
    /\ server = "Server"
    /\ th_pc = "exit"
    /\ th_active' = {}
    /\ th_connected' = FALSE
    /\ th_pc' = "done"
    /\ UNCHANGED <<coreVars, upVars, clientVars, notifyVars, moreVars, th_read_timeout,
                   th_write_timeout, th_sock_timeout, th_peerGone, th_prod,
                   th_yielded, th_wire, th_calls, th_budget, th_cut>>

\* _run_subscription takes a value from the generator: it is sent, or the
\* loop breaks when the subscription was cancelled or the client is gone
ThYield(i) ==
    /\ server = "Server"
    /\ th_prod[i] = "running"
    /\ th_yielded[i] < MaxYield
    /\ th_yielded' = [th_yielded EXCEPT ![i] = @ + 1]
    /\ IF i \in th_active /\ th_connected
       THEN /\ th_wire' = ThWireAfter(SubscribeData(i, th_yielded'[i], NoSub))
            /\ th_connected' = ThConnectedAfter
            /\ UNCHANGED th_prod
       ELSE /\ th_prod' = [th_prod EXCEPT ![i] = "ending"]
            /\ UNCHANGED <<th_wire, th_connected>>
    /\ UNCHANGED <<coreVars, upVars, clientVars, notifyVars, moreVars, th_read_timeout,
                   th_write_timeout, th_sock_timeout, th_pc, th_peerGone, th_active,
                   th_calls, th_budget, th_cut>>

\* the generator is exhausted
ThExhausted(i) ==
    /\ server = "Server"
    /\ th_prod[i] = "running"
    /\ th_yielded[i] = MaxYield
    /\ th_prod' = [th_prod EXCEPT ![i] = "ending"]
    /\ UNCHANGED <<coreVars, upVars, clientVars, notifyVars, moreVars, th_read_timeout,
                   th_write_timeout, th_sock_timeout, th_pc, th_connected,
                   th_peerGone, th_active, th_yielded, th_wire, th_calls,
                   th_budget, th_cut>>

\* after the loop: subscribe-end when the client is connected, and the
\* finally block removes the entry
ThProducerEnd(i) ==
    /\ server = "Server"
    /\ th_prod[i] = "ending"
    /\ th_wire' = IF th_connected THEN ThWireAfter(SubscribeEnd(i, NoSub)) ELSE th_wire
    /\ th_connected' = IF th_connected THEN ThConnectedAfter ELSE th_connected
    /\ th_active' = th_active \ {i}
    /\ th_prod' = [th_prod EXCEPT ![i] = "ended"]
    /\ UNCHANGED <<coreVars, upVars, clientVars, notifyVars, moreVars, th_read_timeout,
                   th_write_timeout, th_sock_timeout, th_pc, th_peerGone,
                   th_yielded, th_calls, th_budget, th_cut>>

ThreadedSteps ==
    \/ \E p \in PlainCallPackets : ThCall(p)
    \/ \E p \in SubscribePackets({"sync_ticks"}) : ThSubscribe(p)
    \/ \E p \in UnsubscribePackets : ThUnsubscribe(p)
    \/ ThTimeout
    \/ ThPeerClose
    \/ ThEof
    \/ ThFinally
    \/ \E i \in Ids :
          \/ ThYield(i)
          \/ ThExhausted(i)
          \/ ThProducerEnd(i)

\* Both servers, one client each: the runtime is drawn at the start, with
\* every setting of the threaded Server's two timeouts.
InitServers ==
    /\ InitServer({"AsyncServer", "Server"}, {DEFAULT_MAX_CONNECTIONS})
    /\ InitUp({FALSE})
    /\ InitClient({"Client"})
    /\ InitNotify({FALSE})
    /\ InitThreaded(BOOLEAN, BOOLEAN)
    /\ InitMore
NextServers ==
    \/ \E c \in Served :
          \/ ReaderSteps(c)
          \/ Handshake(c)
          \/ SessionSteps(c, {"forever"})
          \/ handshaken[c] /\ \E p \in PlainCallPackets : RecvCall(c, p)
          \/ \E h \in pending[c] : HandlerDone(c, h)
    \/ \E s \in Subs :
          \/ ProducerStart(s)
          \/ GenYield(s)
          \/ DrainDone(s)
          \/ DeliverCancel(s)
          \/ ProducerEnd(s)
    \/ ThreadedSteps
SpecServers == InitServers /\ [][NextServers]_vars

\* ------------------------------------------------------------- properties
\* the server is up, every arriving client has been through try_add and
\* none has left
AllHandled == running /\ \A c \in Conns : rpc[c] \in {"recv", "rejected"}

\* C1: on AsyncServer with a bound K > 0 below the number of clients, once
\* every client has connected and none has left, exactly K clients are in
\* the registry; each of the others had its stream closed in the step that
\* refused it and has been sent no packet.
C1_AdmissionExact ==
    /\ \A c \in Conns :
          rpc[c] = "rejected" =>
             /\ c \notin connections
             /\ streamClosed[c]
             /\ wire[c] = <<>>
    /\ (server = "AsyncServer" /\ max_connections > 0 /\ AllHandled) =>
          /\ Cardinality(connections) = max_connections
          /\ connections = {c \in Conns : rpc[c] = "recv"}

C1_Witness ==
    /\ server = "AsyncServer"
    /\ max_connections = MaxK
    /\ AllHandled
    /\ Cardinality({c \in Conns : rpc[c] = "rejected"}) = NConns - MaxK

\* C2: with a bound K > 0 neither registry ever holds more than K
\* connections, whatever the interleaving of try_add, remove and close_all;
\* with a bound of 0 try_add refuses nobody.
C2_CountBounded ==
    /\ max_connections > 0 =>
          /\ Cardinality(connections) <= max_connections
          /\ Cardinality(sconnections) <= max_connections
    /\ max_connections = 0 =>
          /\ ~srefused
          /\ \A c \in Conns : rpc[c] # "rejected"

C2_Witness ==
    /\ server = "Server"
    /\ max_connections = MaxK
    /\ Cardinality(sconnections) = MaxK
    /\ srefused
    /\ \E t \in Conns : t \notin sconnections

\* C3 as stated: before its handshake-request a connection has no handler
\* running; a call it sent was answered with an error packet and the reader
\* loop has ended.
C3_HandshakeFirst ==
    \A c \in Conns :
       (~handshaken[c] /\ nCalls[c] > 0) =>
          /\ pending[c] = {}
          /\ rpc[c] \in {"exit", "removing", "done"}
          /\ \A i \in 1..Len(wire[c]) : wire[c][i].type = "error"

\* the replies written for the k-th call of connection c
RepliesTo(c, k) ==
    {i \in 1..Len(wire[c]) :
        /\ wire[c][i].call = k
        /\ wire[c][i].type \in {"transaction_result", "error"}}

CallReplies(c) ==
    SelectSeq(wire[c], LAMBDA p : p.call > 0)

\* C5: the k-th reply to a call on a connection answers the k-th call
\* received on it.
C5_RepliesInOrder ==
    \A c \in Conns : \A k \in 1..Len(CallReplies(c)) : CallReplies(c)[k].call = k

\* a slow handler's reply is followed by the reply to the next call
C5_Witness ==
    \E c \in Conns :
       /\ Len(CallReplies(c)) >= 3
       /\ CallReplies(c)[1].err = EXECUTION_ERROR
       /\ CallReplies(c)[2].err = SUCCESS
       /\ CallReplies(c)[3].err = INVALID_ARGUMENTS

\* the subscribe-data packets producer s has written, in wire order
DataOf(s) ==
    SelectSeq(wire[task[s].conn],
              LAMBDA p : p.src = s /\ p.type = "subscribe_data")

\* nothing has interrupted any subscription of connection c so far
Undisturbed(c) ==
    /\ WriteOk(c)
    /\ connected[c]
    /\ running
    /\ \A s \in Subs : ~task[s].cancelled

\* C6: the subscribe-data packets of a subscription carry its id and the
\* values its producer yielded, in the order it yielded them: the i-th
\* packet carries the i-th value, and while nothing has interrupted the
\* subscription there is one packet for each value yielded, whatever else
\* is written to the connection in between.
C6_DataInOrder ==
    \A s \in Subs :
       task[s].st # "free" =>
          /\ \A i \in 1..Len(DataOf(s)) :
                /\ DataOf(s)[i].sid = task[s].id
                /\ DataOf(s)[i].data = i
          /\ Len(DataOf(s)) <= task[s].n
          /\ Undisturbed(task[s].conn) => Len(DataOf(s)) = task[s].n

\* two subscriptions and a transaction reply interleaved on one connection,
\* all values of both subscriptions delivered
C6_Witness ==
    \E c \in Conns :
       /\ \A s \in Subs : task[s].conn = c /\ Len(DataOf(s)) = MaxYield
       /\ task[1].id # task[2].id
       /\ \E i, j, k, l \in 1..Len(wire[c]) :
             /\ i < j /\ j < k /\ k < l
             /\ wire[c][i].src = 1 /\ wire[c][i].type = "subscribe_data"
             /\ wire[c][j].src = 2 /\ wire[c][j].type = "subscribe_data"
             /\ wire[c][k].type = "transaction_result"
             /\ wire[c][l].src = 1 /\ wire[c][l].type = "subscribe_data"

\* the packets on the wire of producer s's connection that carry its id
PacketsFor(s) ==
    SelectSeq(wire[task[s].conn], LAMBDA p : p.sid = task[s].id)

\* no other subscription has used the id of s
OnlyUser(s) == \A o \in Subs \ {s} : task[o].id # task[s].id

\* C7 as stated: once a producer has finished normally on a live
\* connection, the packets with its subscription id are its subscribe-data
\* packets followed by exactly one subscribe-end, and nothing else.
C7_EndAfterNormalFinish ==
    \A s \in Subs :
       (hist[s].normalEnd /\ OnlyUser(s) /\ turn = Idle) =>
          /\ Len(PacketsFor(s)) > 0
          /\ PacketsFor(s)[Len(PacketsFor(s))].type = "subscribe_end"
          /\ \A i \in 1..(Len(PacketsFor(s)) - 1) :
                PacketsFor(s)[i].type = "subscribe_data"

\* C8 as stated: after an unsubscribe-request has been processed, the
\* producer it cancelled writes nothing further to the connection.
C8_SilentAfterUnsubscribe ==
    \A s \in Subs :
       (task[s].st # "free" /\ hist[s].unsubAt >= 0) =>
          \A i \in (hist[s].unsubAt + 1)..Len(wire[task[s].conn]) :
             wire[task[s].conn][i].src # s

\* C9 as stated: one turn of its task after a subscription with an
\* infinite producer was cancelled (by unsubscribe or by the end of its
\* connection), the producer has stopped and no index entry names it.
C9_StopsWithinOneTurn ==
    \A s \in Subs :
       (Infinite(task[s].kind) /\ hist[s].turns >= 1 /\ turn = Idle) =>
          /\ task[s].st = "done"
          /\ \A i \in Ids : subscriptions[i] # s

\* C10 as stated: once the reader of a connection has run
\* cancel_for_client, every producer started for the connection and not
\* yet ended has been cancelled, and no index entry belongs to it.
C10_AllCancelledOnExit ==
    \A c \in Conns :
       rpc[c] \in {"removing", "done"} =>
          /\ \A s \in Subs :
                (task[s].conn = c /\ Live(task[s])) => hist[s].cancelAt
          /\ by_client[c] = {}
          /\ \A i \in Ids :
                subscriptions[i] # NoSub => task[subscriptions[i]].conn # c

\* C11 as stated: a subscribe-request whose id is that of a subscription
\* still active on the same connection starts no second producer.  (A
\* producer that is "created" has just been started by a subscribe-request
\* and has not run yet; an earlier producer that is live and uncancelled now
\* was active when that request arrived.)
C11_DuplicateRejected ==
    \A s1, s2 \in Subs :
       ~ /\ s1 < s2
         /\ task[s2].st = "created"
         /\ Live(task[s1])
         /\ ~task[s1].cancelled
         /\ task[s1].conn = task[s2].conn
         /\ task[s1].id = task[s2].id

\* C12 as stated: when shutdown has closed the stream of a client, every
\* producer task that has not ended has been cancelled.
C12_ProducersCancelledFirst ==
    (regLock = "close_all" /\ closing # connections) =>
        \A s \in Subs : Live(task[s]) => hist[s].cancelAt

\* shutdown has been initiated, by the signal handler or by down()
ShutdownInitiated == upc # "serving" \/ ~running

\* Stopped: up() has returned, the listen socket is closed, every accepted
\* connection is closed and its worker has exited, no producer task is left
Stopped ==
    /\ upc = "returned"
    /\ ~running
    /\ \A c \in Conns : rpc[c] \in {"init", "rejected", "done"}
    /\ AllDetached
    /\ \A s \in Subs : ~Live(task[s])

\* C13 as stated: once shutdown is initiated the server eventually reaches
\* Stopped.
C13_ShutdownCompletes == ShutdownInitiated ~> Stopped

\* C14 as stated: every caller returns the reply to its own call, never the
\* reply to another caller's call.
C14_OwnReply ==
    \A t \in Threads : ncall[t] > 0 => result[t] = <<t, ncall[t]>>

\* C15 as stated: user_online is broadcast exactly on the 0 -> 1 transition:
\* a stream that is registered while the user has no other open stream has
\* broadcast it, and it is never broadcast while the user has an open stream.
C15_OnlineOnFirst ==
    \A s \in Slots :
       /\ nm_hist[s].first => nm_hist[s].announced
       /\ ~nm_hist[s].liveAtAnnounce

\* C16 as stated: user_offline and the last_online_at update happen only on
\* the 1 -> 0 transition, not when the user still has a registered queue.
C16_OfflineOnLast ==
    \A s \in Slots : nm_hist[s].offline => ~nm_hist[s].othersLeft

\* C17 as stated: is_online(U) is true while a registered stream of U is
\* open, whatever tokens the streams use, and false when U has no stream.
C17_OnlineWhileOpen ==
    \A u \in Users :
       /\ OpenStreams(u) # {} => IsOnline(u)
       /\ (\A s \in Slots : UserOf(nm_token[s]) = u => nm_pc[s] \in {"idle", "done"})
             => ~IsOnline(u)

\* what is right in notify_user: a registered queue of U has received, once
\* each and in order, the events of the calls that ran since it was stored
FanOutExact ==
    \A s \in Slots :
       (nm_pc[s] = "streaming" /\ UserOf(nm_token[s]) = "U" /\ nm_entry[nm_token[s]] = s)
          => nm_yielded[s] \o nm_queue[s]
                = [i \in 1..(nm_sent - nm_hist[s].since) |-> nm_hist[s].since + i]

\* C18 as stated: each notify_user(U, e) made while U has a registered
\* stream enqueues e on the queues of U: the call runs.
C18_EveryCallEnqueues ==
    \A k \in 1..MaxEvents :
       (nm_notifier = "wait" /\ nm_called = k /\ OpenStreams("U") # {})
          ~> (nm_sent >= k)

\* C19 as stated: a user key is present exactly when the user has at least
\* one registered queue; no user maps to an empty mapping.
C19_NoEmptyMapping ==
    \A u \in Users : u \in OnlineUserIds <=> RegisteredIn(nm_entry, u) # {}

\* C20 as stated: while the guard is held no repository call and no
\* presence broadcast is awaited.
C20_NoCallOutUnderGuard ==
    \A s \in Slots : nm_lock = s => nm_pc[s] \notin {"online_repo", "online_notify"}

\* C21 as stated: a connection with an active subscription has no read
\* timeout, on either server; no read timeout ends a subscribed connection.
C21_NoTimeoutWhileSubscribed ==
    /\ \A c \in Conns : by_client[c] # {} => ~read_timeout[c]
    /\ ~th_cut


\* ------------------------------------------------------- failing requests
\* Two clients of the AsyncServer: the caller sends calls that fail next to
\* calls that succeed, the bystander subscribes and unsubscribes meanwhile.
FailingSteps(caller, bystander) ==
    \/ \E c \in {caller, bystander} :
          \/ ReaderSteps(c)
          \/ Handshake(c)
    \/ /\ handshaken[caller]
       /\ \E p \in FailingCallPackets \cup EchoPackets : RecvCall(caller, p)
    \/ \E h \in pending[caller] : HandlerDone(caller, h)
    \/ \E h \in pending[caller] : HandlerLost(caller, h)
    \/ SessionSteps(bystander, {"forever"})
    \/ \E s \in Subs :
          \/ ProducerStart(s)
          \/ GenYield(s)
          \/ DrainDone(s)
          \/ DeliverCancel(s)
          \/ ProducerEnd(s)

NextFailing == FailingSteps(1, 2)
SpecFailing == Init /\ [][NextFailing]_vars

\* Failing subscriptions: one client subscribes to producers that raise and
\* to producers that keep running, asks for event types that are not
\* registered or with arguments that cannot be coerced, and unsubscribes ids
\* whether or not they are active.
NextRefused ==
    \/ \E c \in Served :
          \/ ReaderSteps(c)
          \/ Handshake(c)
          \/ SessionSteps(c, {"forever", "boom"})
          \/ handshaken[c] /\ \E p \in RefusedSubscribePackets : RecvSubscribe(c, p)
          \/ handshaken[c] /\ \E p \in MalformedPackets : RecvCall(c, p)
          \/ handshaken[c] /\ \E p \in MalformedPackets : RecvSubscribe(c, p)
          \/ handshaken[c] /\ \E p \in MalformedPackets : RecvUnsubscribe(c, p)
    \/ \E s \in Subs :
          \/ ProducerStart(s)
          \/ GenYield(s)
          \/ DrainDone(s)
          \/ GenRaise(s)
          \/ DeliverCancel(s)
          \/ ProducerEnd(s)
SpecRefused == Init /\ [][NextRefused]_vars

\* ---------------------------------------------------------------- claims
\* The packets written to connection c in answer to its call number k.
AnswersTo(w, k) == SelectSeq(w, LAMBDA q : q.call = k)

\* the answer required for a call naming an unregistered code:
\* one transaction-result, success=false, error_code=1, the message naming the code
IsUnknownAnswer(ans, code) ==
    /\ Len(ans) = 1
    /\ ans[1].type = "transaction_result"
    /\ ans[1].err = 1
    /\ ans[1].msg = "Unknown transaction: " \o code

\* C22: a transaction-call whose code matches no registered handler is
\* answered, on either server, with one transaction-result carrying
\* success=false, error_code=1 and the message 'Unknown transaction: <code>';
\* no handler is run for it and the connection stays open.
C22_UnknownTransaction ==
    /\ \A c \in Conns : \A k \in 1..Len(calls[c]) :
          (calls[c][k].code \notin Codes /\ calls[c][k].args = "ok") =>
             /\ calls[c][k].st = "replied"
             /\ \A h \in pending[c] : h.call # k
             /\ calls[c][k].sent =>
                   /\ IsUnknownAnswer(AnswersTo(wire[c], k), calls[c][k].code)
                   /\ calls[c][k].stays
    /\ \A k \in 1..Len(th_calls) :
          (th_calls[k].code \notin Codes /\ th_calls[k].args = "ok") =>
             /\ th_calls[k].st = "replied"
             /\ th_calls[k].sent =>
                   /\ IsUnknownAnswer(AnswersTo(th_wire, k), th_calls[k].code)
                   /\ th_calls[k].stays

\* an unknown code was answered by the AsyncServer and the same connection
\* then had a later call answered with success
C22_Witness ==
    \E c \in Conns : \E k \in 1..Len(calls[c]) :
        /\ calls[c][k].code = "nope" /\ calls[c][k].sent /\ calls[c][k].stays
        /\ \E j \in (k+1)..Len(calls[c]) :
              /\ calls[c][j].code = "echo" /\ calls[c][j].st = "replied"
              /\ Len(AnswersTo(wire[c], j)) = 1
              /\ AnswersTo(wire[c], j)[1].err = SUCCESS

\* the same on the threaded Server
C22_WitnessThreaded ==
    \E k \in 1..Len(th_calls) :
        /\ th_calls[k].code = "nope" /\ th_calls[k].sent /\ th_calls[k].stays
        /\ \E j \in (k+1)..Len(th_calls) :
              /\ th_calls[j].code = "echo"
              /\ Len(AnswersTo(th_wire, j)) = 1
              /\ AnswersTo(th_wire, j)[1].err = SUCCESS

\* handlers that raise
Raising == {"boom", "stop"}

\* one transaction-result, success=false, error_code=execution-error, with
\* the stringified reason as its message
IsExecutionAnswer(ans, reason) ==
    /\ Len(ans) = 1
    /\ ans[1].type = "transaction_result"
    /\ ans[1].err = EXECUTION_ERROR
    /\ ans[1].msg = reason

\* C23: when a transaction handler raises, the exception reaches
\* _handle_transaction, which replies to the calling connection with one
\* transaction-result carrying success=false, error_code=execution-error and
\* the stringified reason, and the connection stays open.
C23_RaisedIsReported ==
    \A c \in Conns : \A k \in 1..Len(calls[c]) :
        (calls[c][k].code \in Raising /\ calls[c][k].args = "ok") =>
           /\ calls[c][k].st # "lost"
           /\ (calls[c][k].st = "replied" /\ calls[c][k].sent) =>
                 /\ IsExecutionAnswer(AnswersTo(wire[c], k), Reason(calls[c][k].code))
                 /\ calls[c][k].stays

\* the part of C23 about the other connections: the step that answers a
\* raising handler sends no packet to another connection and changes no
\* subscription or registry state
C23_OthersUntouched ==
    [][\A c \in Conns : \A h \in pending[c] :
          (h.code \in Raising /\ (HandlerDone(c, h) \/ HandlerLost(c, h))) =>
             /\ \A d \in Conns \ {c} :
                   /\ wire'[d] = wire[d]
                   /\ connected'[d] = connected[d]
                   /\ read_timeout'[d] = read_timeout[d]
             /\ UNCHANGED <<subVars, regVars>>]_vars

\* a handler raised while the other connection held a subscription, and the
\* caller got the execution-error result
C23_Reported ==
    \E c, d \in Conns : \E k \in 1..Len(calls[c]) :
        /\ c # d
        /\ calls[c][k].code = "boom"
        /\ calls[c][k].st = "replied" /\ calls[c][k].sent
        /\ by_client[d] # {}

\* arguments that cannot be coerced to the declared type: an unknown enum
\* member, a record without a required field, a value of the wrong shape
Uncoercible == {"bad", "missing_field", "wrong_shape"}

\* C24: a transaction-call whose arguments cannot be coerced to the
\* handler's declared parameter types (wrong shape or unknown enum member)
\* is answered with one transaction-result carrying invalid-arguments, the
\* handler is not invoked, and the connection remains alive.
C24_InvalidArguments ==
    \A c \in Conns : \A k \in 1..Len(calls[c]) :
        (calls[c][k].code \in Codes /\ calls[c][k].args \in Uncoercible) =>
           /\ \A h \in pending[c] : h.call # k
           /\ calls[c][k].st = "replied"
           /\ calls[c][k].sent =>
                 /\ Len(AnswersTo(wire[c], k)) = 1
                 /\ AnswersTo(wire[c], k)[1].type = "transaction_result"
                 /\ AnswersTo(wire[c], k)[1].err = INVALID_ARGUMENTS
                 /\ calls[c][k].stays

\* the same for the arguments on which prepare_arguments raises
C24_RaisedIsInvalid ==
    \A c \in Conns : \A k \in 1..Len(calls[c]) :
        (calls[c][k].code \in Codes /\ calls[c][k].args \in {"bad", "missing_field"}) =>
           /\ \A h \in pending[c] : h.call # k
           /\ calls[c][k].st = "replied"
           /\ calls[c][k].sent =>
                 /\ Len(AnswersTo(wire[c], k)) = 1
                 /\ AnswersTo(wire[c], k)[1].type = "transaction_result"
                 /\ AnswersTo(wire[c], k)[1].err = INVALID_ARGUMENTS
                 /\ calls[c][k].stays

\* both kinds of raising arguments were answered on one connection, which
\* then answered a well-formed call
C24_Rejected ==
    \E c \in Conns : \E i, j, l \in 1..Len(calls[c]) :
        /\ i < l /\ j < l
        /\ calls[c][i].args = "bad" /\ calls[c][i].sent
        /\ calls[c][j].args = "missing_field" /\ calls[c][j].sent
        /\ calls[c][l].args = "ok" /\ calls[c][l].code = "echo"
        /\ calls[c][l].st = "replied" /\ calls[c][l].sent

\* C25: a subscribe-request for an unregistered event type is answered with
\* a subscribe-error carrying the request's subscription_id and error code 1;
\* no producer task is spawned, no active-subscription entry is created, the
\* read timeout is left unchanged, and the reader goes on to the next packet.
C25_UnknownEventRefused ==
    [][\A c \in Conns : \A p \in RefusedSubscribePackets :
          (p.event \notin Kinds /\ RecvSubscribe(c, p)) =>
             /\ UNCHANGED <<task, subscriptions, by_client, read_timeout>>
             /\ WriteOk(c) =>
                   /\ Len(wire'[c]) = Len(wire[c]) + 1
                   /\ SubSeq(wire'[c], 1, Len(wire[c])) = wire[c]
                   /\ wire'[c][Len(wire'[c])].type = "subscribe_error"
                   /\ wire'[c][Len(wire'[c])].sid = p.sid
                   /\ wire'[c][Len(wire'[c])].err = 1
                   /\ connected'[c]
                   /\ rpc'[c] = "recv"]_vars

\* the refusal is on the wire, followed by the data of a subscription the
\* same connection made afterwards
C25_Witness ==
    \E c \in Conns : \E i, j \in 1..Len(wire[c]) :
        /\ i < j
        /\ wire[c][i].type = "subscribe_error"
        /\ wire[c][i].err = UNKNOWN_TRANSACTION
        /\ wire[c][i].sid = "a"
        /\ wire[c][j].type = "subscribe_data"
        /\ connected[c]

\* producer s is registered in the index under its id
Indexed(subs, s) == task[s].st # "free" /\ subs[task[s].id] = s

\* C26: the step in which a producer raises on a live connection sends one
\* subscribe-error with the subscription's id and execution-error and no
\* subscribe-end, leaves no index entry for the producer, keeps the
\* connection open and leaves every other producer, and its index entry,
\* as it was.
C26_RaiseIsContained ==
    [][\A s \in Subs :
          (GenRaise(s) /\ connected[task[s].conn] /\ WriteOk(task[s].conn)) =>
             LET c == task[s].conn
             IN /\ Len(wire'[c]) = Len(wire[c]) + 1
                /\ SubSeq(wire'[c], 1, Len(wire[c])) = wire[c]
                /\ wire'[c][Len(wire'[c])].type = "subscribe_error"
                /\ wire'[c][Len(wire'[c])].sid = task[s].id
                /\ wire'[c][Len(wire'[c])].err = EXECUTION_ERROR
                /\ ~Indexed(subscriptions', s)
                /\ connected'[c]
                /\ rpc'[c] = rpc[c]
                /\ \A o \in Subs \ {s} :
                      /\ task'[o] = task[o]
                      /\ Indexed(subscriptions, o) => Indexed(subscriptions', o)]_vars

\* a producer raised next to another running subscription with another id:
\* the error is on the wire and the other producer is still indexed
C26_Raised ==
    \E s, o \in Subs :
        /\ task[s].kind = "boom" /\ task[s].st = "done"
        /\ task[o].kind = "forever" /\ task[o].id # task[s].id
        /\ Indexed(subscriptions, o)
        /\ \E i \in 1..Len(wire[task[s].conn]) :
              /\ wire[task[s].conn][i].type = "subscribe_error"
              /\ wire[task[s].conn][i].err = EXECUTION_ERROR

\* C27: an unsubscribe-request whose id is not in the active-subscription
\* index is a no-op: no packet is sent, no entry is added or removed, no
\* producer is cancelled, and the reader goes on to the next packet.
C27_UnknownUnsubscribeIsNoOp ==
    [][\A c \in Conns : \A p \in UnsubscribePackets :
          (subscriptions[p.sid] = NoSub /\ RecvUnsubscribe(c, p)) =>
             /\ wire' = wire
             /\ UNCHANGED <<subscriptions, by_client, task>>
             /\ connected' = connected
             /\ (running /\ connected[c]) => rpc'[c] = "recv"]_vars

\* three packets were read: the handshake, a subscribe-request and an
\* unsubscribe-request for the other id.  The subscription is still indexed
\* and not cancelled, nothing but its data followed the handshake-response
\* and the reader is at recv_packet.
C27_Witness ==
    \E c \in Conns : \E s \in Subs :
        /\ budget = MaxPackets - 3
        /\ handshaken[c] /\ connected[c] /\ rpc[c] = "recv"
        /\ task[s].conn = c /\ Indexed(subscriptions, s) /\ ~task[s].cancelled
        /\ \A o \in Subs \ {s} : task[o].st = "free"
        /\ by_client[c] = {task[s].id}
        /\ Len(wire[c]) >= 2
        /\ \A i \in 2..Len(wire[c]) : wire[c][i].type = "subscribe_data"

\* C28: when the length field of a header exceeds max_payload_size, the
\* server reads no payload bytes and leaves the read loop to close the
\* connection without having sent any packet.
C28_SilentClose ==
    [][\A c \in Conns :
          RecvFail(c, "length") =>
             /\ recv_packet(BadHeader("length")).read = 0
             /\ rpc'[c] = "exit"
             /\ wire'[c] = wire[c]]_vars

\* C29: on every framing-level protocol error (magic, version, packet-type
\* byte, payload length) the server reads no payload and dispatches nothing,
\* appends one error packet with protocol-error when the stream is writable,
\* and leaves the read loop to close that connection; the step changes
\* nothing for any other connection.
C29_FramingError ==
    [][\A c \in Conns : \A why \in FramingErrors :
          RecvFail(c, why) =>
             /\ recv_packet(BadHeader(why)).read = 0
             /\ UNCHANGED <<callVars, subVars, regVars, read_timeout, handshaken>>
             /\ rpc'[c] = "exit"
             /\ IF WriteOk(c)
                THEN /\ Len(wire'[c]) = Len(wire[c]) + 1
                     /\ SubSeq(wire'[c], 1, Len(wire[c])) = wire[c]
                     /\ wire'[c][Len(wire'[c])].type = "error"
                     /\ wire'[c][Len(wire'[c])].err = PROTOCOL_ERROR
                ELSE wire'[c] = wire[c]
             /\ \A d \in Conns \ {c} :
                   /\ wire'[d] = wire[d]
                   /\ connected'[d] = connected[d]
                   /\ rpc'[d] = rpc[d]]_vars

\* a framing error was answered and the connection was closed and removed
\* from the registry, while another handshaken connection is still served
C29_Witness ==
    \E c, d \in Conns :
        /\ c # d
        /\ Len(wire[c]) >= 1
        /\ wire[c][Len(wire[c])].type = "error"
        /\ wire[c][Len(wire[c])].err = PROTOCOL_ERROR
        /\ rpc[c] = "done" /\ c \notin connections /\ streamClosed[c]
        /\ handshaken[d] /\ connected[d] /\ rpc[d] = "recv" /\ d \in connections

\* C30: a well-framed transaction-call, subscribe-request or
\* unsubscribe-request whose payload is not a well-formed serialized value
\* is a protocol error: the server appends an error packet with
\* protocol-error to a writable stream and leaves the read loop to close the
\* connection.
C30_MalformedPayload ==
    [][\A c \in Conns : \A p \in MalformedPackets :
          ((RecvCall(c, p) \/ RecvSubscribe(c, p) \/ RecvUnsubscribe(c, p)) /\ WriteOk(c)) =>
             /\ Len(wire'[c]) = Len(wire[c]) + 1
             /\ wire'[c][Len(wire'[c])].type = "error"
             /\ wire'[c][Len(wire'[c])].err = PROTOCOL_ERROR
             /\ rpc'[c] = "exit"]_vars

\* what the code does with such a payload: an error packet with
\* internal-error for a call and for a subscribe-request, nothing for an
\* unsubscribe-request, and the reader goes on
C30_AnsweredAsInternal ==
    [][\A c \in Conns : \A p \in MalformedPackets :
          ((RecvCall(c, p) \/ RecvSubscribe(c, p) \/ RecvUnsubscribe(c, p)) /\ WriteOk(c)) =>
             /\ IF p.type = "unsubscribe_request"
                THEN wire'[c] = wire[c]
                ELSE /\ Len(wire'[c]) = Len(wire[c]) + 1
                     /\ wire'[c][Len(wire'[c])].type = "error"
                     /\ wire'[c][Len(wire'[c])].err = INTERNAL_ERROR
             /\ rpc'[c] = "recv"]_vars

\* C31: on an established connection of a running server a repeated
\* handshake-request is
\* answered with an error packet carrying protocol-error, no second
\* handshake-response is sent, and the connection stays established.
C31_RepeatedHandshake ==
    [][\A c \in Conns : \A p \in HandshakePackets :
          (running /\ handshaken[c] /\ RecvHandshake(c, p) /\ WriteOk(c)) =>
             /\ Len(wire'[c]) = Len(wire[c]) + 1
             /\ wire'[c][Len(wire'[c])].type = "error"
             /\ wire'[c][Len(wire'[c])].err = PROTOCOL_ERROR
             /\ connected'[c]
             /\ rpc'[c] = "recv"]_vars

\* what the code does: every handshake-request is answered with a
\* handshake-response and the reader goes on
C31_AnsweredAgain ==
    [][\A c \in Conns : \A p \in HandshakePackets :
          (running /\ handshaken[c] /\ RecvHandshake(c, p) /\ WriteOk(c)) =>
             /\ wire'[c] = Append(wire[c], HandshakeResponse)
             /\ connected'[c]
             /\ rpc'[c] = "recv"]_vars
\* ------------------------------------------- the client's subscription handle
\* SubscriptionIterator (client) and AsyncSubscriptionIterator (aio_client):
\* the two classes run the same statements, the second with awaits.
MaxReceives == 2
MaxCancels == 2

\* UnsubscribeRequest(subscription_id=...).to_packet()
UnsubscribeRequest(id) == [type |-> "unsubscribe", sid |-> id]

\* what the connection can hand to one __next__: a packet of the handle's own
\* stream, one naming another id, a connection-level error packet, a packet
\* of any other type, or a connection error in receive()
Received == {"data", "end", "suberr", "data_other", "end_other", "suberr_other",
             "error", "unexpected", "connection_error"}

\* __next__: the state it leaves and how it ends
\*   "value" a data packet of this stream is returned
\*   "stop"  StopIteration
\*   "raise" RuntimeError
HNext(got) ==
    /\ h_scope = "in"
    /\ Len(h_got) < MaxReceives
    /\ IF ~h_active \/ h_ended
         THEN /\ h_got' = Append(h_got, "stopped")
              /\ UNCHANGED <<h_active, h_ended, h_connected>>
         ELSE IF ~h_connected
         THEN /\ h_active' = FALSE
              /\ h_got' = Append(h_got, "down")
              /\ UNCHANGED <<h_ended, h_connected>>
         ELSE /\ h_got' = Append(h_got, got)
              /\ h_connected' = (got # "connection_error")
              /\ h_active' = (got # "connection_error")
              /\ h_ended' = (got \in {"end", "suberr", "error"})
    /\ UNCHANGED <<h_id, h_scope, h_sent, h_ncancel>>

\* a faulty variant of cancel: the request is sent whatever the handle's state
cancel_unguarded(ok) ==
    /\ h_active' = FALSE
    /\ IF h_connected /\ ok
         THEN h_sent' = Append(h_sent, UnsubscribeRequest(h_id)) /\ UNCHANGED h_connected
         ELSE h_connected' = FALSE /\ UNCHANGED h_sent

\* cancel(): nothing for a handle that is not active or has ended; otherwise
\* the handle stops being active and one unsubscribe-request is sent.
\* Connection.send raises when the connection is down or the write fails
\* (ok = FALSE), marking the connection down; cancel swallows the exception.
cancel(ok) ==
    IF ~h_active \/ h_ended
      THEN UNCHANGED <<h_active, h_connected, h_sent>>
      ELSE /\ h_active' = FALSE
           /\ IF h_connected /\ ok
                THEN h_sent' = Append(h_sent, UnsubscribeRequest(h_id)) /\ UNCHANGED h_connected
                ELSE h_connected' = FALSE /\ UNCHANGED h_sent

\* the program calls cancel() itself, inside or after the with-block
HCancel(ok) ==
    /\ h_ncancel < MaxCancels
    /\ cancel(ok)
    /\ h_ncancel' = h_ncancel + 1
    /\ UNCHANGED <<h_id, h_ended, h_scope, h_got>>

\* __exit__ / __aexit__: the with-block is left, normally or by an exception
HExit(ok) ==
    /\ h_scope = "in"
    /\ cancel(ok)
    /\ h_scope' = "out"
    /\ h_ncancel' = h_ncancel + 1
    /\ UNCHANGED <<h_id, h_ended, h_got>>

InitHandles ==
    /\ InitServer({"AsyncServer"}, {DEFAULT_MAX_CONNECTIONS})
    /\ InitUp({FALSE})
    /\ InitClient({"Client", "AsyncClient"})
    /\ InitNotify({FALSE})
    /\ InitThreaded({TRUE}, {TRUE})
    /\ InitHandle
    /\ InitNoValue
    /\ InitLegacy({DEFAULT_MAX_CONNECTIONS})
    /\ InitWrites
    /\ p_events = <<>>
NextHandles ==
    \/ \E got \in Received : HNext(got) /\ UNCHANGED butHandle
    \/ \E ok \in BOOLEAN : HCancel(ok) /\ UNCHANGED butHandle
    \/ \E ok \in BOOLEAN : HExit(ok) /\ UNCHANGED butHandle
SpecHandles == InitHandles /\ [][NextHandles]_vars

\* the handle has met nothing that ends it: no subscribe-end, subscribe-error
\* or error packet, no lost connection, and cancel() has not been called
Untouched == h_ncancel = 0
        /\ \A i \in 1..Len(h_got) :
              h_got[i] \notin {"end", "suberr", "error", "connection_error", "down", "stopped"}

C32_WitnessEnded ==
    /\ h_scope = "out"
    /\ h_got = <<"data", "end">>
    /\ h_sent = <<>>
\* ------------------------------------------------------ the value serializer
\* serialize / deserialize of htcp/common/serialization.py, without a schema
\* (expected_type = None).  The bytes are kept as a sequence of fields: a tag
\* byte, a 4-byte length, or one chunk of a payload (a length counts chunks).
MaxDepth == 4

TypeTag ==
    [NONE |-> 0, BOOL_TRUE |-> 1, BOOL_FALSE |-> 2, INT |-> 3, FLOAT |-> 4, STR |-> 5,
     BYTES |-> 6, LIST |-> 7, TUPLE |-> 8, DICT |-> 9, SET |-> 10, FROZENSET |-> 11,
     DATACLASS |-> 12, DATETIME |-> 13, DATE |-> 14, TIME |-> 15, TIMEDELTA |-> 16,
     DECIMAL |-> 17, COMPLEX |-> 18, UUID |-> 19, ENUM |-> 20, INT_NEGATIVE |-> 21,
     INT_BIG |-> 22, INT_BIG_NEGATIVE |-> 23, PYDANTIC_MODEL |-> 24]

Str(chunks) == Value("str", chunks, <<>>)

\* integers, written by name: the two ends of the signed 64-bit range, their
\* neighbours outside it, and two small ones
Int64 == {"0", "-1", "2^63-1", "-2^63"}
BigInt == {"2^63", "-2^63-1"}
Negative == {"-1", "-2^63", "-2^63-1"}
\* abs(obj).to_bytes(...): the magnitude of a big integer
Magnitude(i) == IF i = "-2^63-1" THEN "2^63+1" ELSE i
\* -int.from_bytes(...)
Negated(m) == IF m = "2^63+1" THEN "-2^63-1" ELSE "-" \o m

\* timedelta.total_seconds() as a double, and timedelta(seconds=double):
\* a double holds 53 bits, so the microsecond of a duration near
\* timedelta.max is rounded away
total_seconds(td) ==
    CASE td = "3 days, 0:00:00.000001" -> "259200.000001"
      [] td = "999999999 days, 0:00:00.000001" -> "86399999913600.0"
timedelta(seconds) ==
    CASE seconds = "259200.000001" -> "3 days, 0:00:00.000001"
      [] seconds = "86399999913600.0" -> "999999999 days, 0:00:00"

\* values without children, one or more of every scalar kind
Scalars ==
    {None, Value("bool", <<"True">>, <<>>), Value("bool", <<"False">>, <<>>),
     Value("float", <<"1.5">>, <<>>), Str(<<"h", "i">>), Str(<<>>),
     Value("bytes", <<"01", "02">>, <<>>),
     Value("datetime", <<"2020-01-02T03:04:05">>, <<>>),
     Value("date", <<"2020-01-02">>, <<>>), Value("time", <<"03:04:05">>, <<>>),
     Value("decimal", <<"1.10E+5">>, <<>>), Value("complex", <<"1.0", "2.0">>, <<>>),
     Value("uuid", <<"0123456789abcdef">>, <<>>),
     Value("enum", <<"Color", "RED">>, <<>>)}
    \cup {Value("int", <<i>>, <<>>) : i \in Int64 \cup BigInt}
    \cup {Value("timedelta", <<d>>, <<>>) :
             d \in {"3 days, 0:00:00.000001", "999999999 days, 0:00:00.000001"}}

\* hash(v) does not raise TypeError: lists, sets, mappings, plain dataclass
\* instances and pydantic models are unhashable, a tuple or a frozen dataclass
\* instance is hashable when its parts are
RECURSIVE Hashable(_)
Hashable(v) ==
    CASE v.tag \in {"list", "set", "dict", "record", "model"} -> FALSE
      [] v.tag = "tuple" -> \A i \in 1..Len(v.items) : Hashable(v.items[i])
      [] v.tag = "frozen_record" ->
            \A i \in 1..Len(v.items) : (i % 2 = 0) => Hashable(v.items[i])
      [] OTHER -> TRUE

\* ---- serialize
\* _serialize_int: the tag is chosen by range and sign
_serialize_int(i) ==
    IF i \in Int64
      THEN <<IF i \notin Negative THEN TypeTag.INT ELSE TypeTag.INT_NEGATIVE, i>>
      ELSE <<IF i \notin Negative THEN TypeTag.INT_BIG ELSE TypeTag.INT_BIG_NEGATIVE,
             1, Magnitude(i)>>

\* tag, length, payload
Prefixed(tag, chunks) == <<tag, Len(chunks)>> \o chunks

\* model_dump(): the fields of a model with nested models and dataclass
\* instances turned into mappings
RECURSIVE model_dump(_)
model_dump(v) ==
    IF v.tag \in {"model", "record", "frozen_record"}
      THEN Value("dict", <<>>, [i \in 1..Len(v.items) |-> model_dump(v.items[i])])
      ELSE Value(v.tag, v.atom, [i \in 1..Len(v.items) |-> model_dump(v.items[i])])

RECURSIVE serialize(_)
RECURSIVE serialize_each(_)
\* the loop `for item in items: result.extend(serialize(item))`
serialize_each(items) ==
    IF items = <<>> THEN <<>> ELSE serialize(Head(items)) \o serialize_each(Tail(items))

\* the fields of a record: length-prefixed name, then the value
RECURSIVE serialize_fields(_)
serialize_fields(items) ==
    IF items = <<>> THEN <<>>
    ELSE <<Len(items[1].atom)>> \o items[1].atom \o serialize(items[2])
         \o serialize_fields(SubSeq(items, 3, Len(items)))

_serialize_sequence(items, tag) == <<tag, Len(items)>> \o serialize_each(items)
_serialize_dict(items) == <<TypeTag.DICT, Len(items) \div 2>> \o serialize_each(items)
_serialize_enum(atom) ==
    <<TypeTag.ENUM, 1, atom[1], 1, atom[2]>>
_serialize_dataclass(tag, atom, items) ==
    <<tag, Len(atom)>> \o atom \o <<Len(items) \div 2>> \o serialize_fields(items)

serialize(obj) ==
    CASE obj.tag = "none" -> <<TypeTag.NONE>>
      [] obj.tag = "bool" ->
            <<IF obj.atom = <<"True">> THEN TypeTag.BOOL_TRUE ELSE TypeTag.BOOL_FALSE>>
      [] obj.tag = "int" -> _serialize_int(obj.atom[1])
      [] obj.tag = "float" -> <<TypeTag.FLOAT>> \o obj.atom
      [] obj.tag = "str" -> Prefixed(TypeTag.STR, obj.atom)
      [] obj.tag = "bytes" -> Prefixed(TypeTag.BYTES, obj.atom)
      [] obj.tag = "list" -> _serialize_sequence(obj.items, TypeTag.LIST)
      [] obj.tag = "tuple" -> _serialize_sequence(obj.items, TypeTag.TUPLE)
      [] obj.tag = "dict" -> _serialize_dict(obj.items)
      [] obj.tag = "set" -> _serialize_sequence(obj.items, TypeTag.SET)
      [] obj.tag = "frozenset" -> _serialize_sequence(obj.items, TypeTag.FROZENSET)
      [] obj.tag = "enum" -> _serialize_enum(obj.atom)
      [] obj.tag \in {"record", "frozen_record"} ->
            _serialize_dataclass(TypeTag.DATACLASS, obj.atom, obj.items)
      [] obj.tag = "model" ->
            _serialize_dataclass(TypeTag.PYDANTIC_MODEL, obj.atom, model_dump(obj).items)
      [] obj.tag = "datetime" -> Prefixed(TypeTag.DATETIME, obj.atom)
      [] obj.tag = "date" -> Prefixed(TypeTag.DATE, obj.atom)
      [] obj.tag = "time" -> Prefixed(TypeTag.TIME, obj.atom)
      [] obj.tag = "timedelta" -> <<TypeTag.TIMEDELTA, total_seconds(obj.atom[1])>>
      [] obj.tag = "decimal" -> Prefixed(TypeTag.DECIMAL, obj.atom)
      [] obj.tag = "complex" -> <<TypeTag.COMPLEX>> \o obj.atom
      [] obj.tag = "uuid" -> <<TypeTag.UUID>> \o obj.atom

\* ---- deserialize
\* the value read at an offset and the offset after it, or an exception
Read(value, offset) == [raises |-> FALSE, value |-> value, offset |-> offset]
Raised == [raises |-> TRUE, value |-> None, offset |-> 0]

\* data[offset:offset + length]
Slice(data, offset, length) == SubSeq(data, offset, offset + length - 1)

\* a length-prefixed payload read as a value of the given kind
Payload(tag, data, offset) ==
    Read(Value(tag, Slice(data, offset + 1, data[offset]), <<>>), offset + 1 + data[offset])

RECURSIVE deserialize(_, _)
RECURSIVE deserialize_each(_, _, _)
\* the loop of _deserialize_sequence: count values read one after another
deserialize_each(data, offset, count) ==
    IF count = 0 THEN Read(Value("list", <<>>, <<>>), offset)
    ELSE LET item == deserialize(data, offset)
         IN  IF item.raises THEN Raised
             ELSE LET rest == deserialize_each(data, item.offset, count - 1)
                  IN  IF rest.raises THEN Raised
                      ELSE Read(Value("list", <<>>, <<item.value>> \o rest.value.items),
                                rest.offset)

_deserialize_sequence(data, offset) == deserialize_each(data, offset + 1, data[offset])

\* set(items), frozenset(items): TypeError when an item is unhashable
Collected(tag, read) ==
    IF read.raises THEN Raised
    ELSE IF \E i \in 1..Len(read.value.items) : ~Hashable(read.value.items[i]) THEN Raised
    ELSE Read(Value(tag, <<>>, read.value.items), read.offset)

\* _deserialize_dict: `result[key] = value` raises TypeError for an
\* unhashable key
_deserialize_dict(data, offset) ==
    LET read == deserialize_each(data, offset + 1, 2 * data[offset])
    IN  IF read.raises THEN Raised
        ELSE IF \E i \in 1..Len(read.value.items) :
                   i % 2 = 1 /\ ~Hashable(read.value.items[i]) THEN Raised
        ELSE Read(Value("dict", <<>>, read.value.items), read.offset)

\* the loop of _deserialize_dataclass / _deserialize_pydantic
RECURSIVE deserialize_fields(_, _, _)
deserialize_fields(data, offset, count) ==
    IF count = 0 THEN Read(Value("dict", <<>>, <<>>), offset)
    ELSE LET name == Str(Slice(data, offset + 1, data[offset]))
             item == deserialize(data, offset + 1 + data[offset])
         IN  IF item.raises THEN Raised
             ELSE LET rest == deserialize_fields(data, item.offset, count - 1)
                  IN  IF rest.raises THEN Raised
                      ELSE Read(Value("dict", <<>>, <<name, item.value>> \o rest.value.items),
                                rest.offset)

\* without expected_type the field mapping is returned
_deserialize_dataclass(data, offset) ==
    LET name_len == data[offset]
        count == data[offset + 1 + name_len]
    IN  deserialize_fields(data, offset + 2 + name_len, count)

\* without expected_type the sentinel mapping is returned
_deserialize_enum(data, offset) ==
    LET class_name == Slice(data, offset + 1, data[offset])
        at == offset + 1 + data[offset]
        member_name == Slice(data, at + 1, data[at])
    IN  Read(Value("dict", <<>>, <<Str(<<"__enum__">>), Str(class_name),
                                    Str(<<"__member__">>), Str(member_name)>>),
             at + 1 + data[at])

deserialize(data, at) ==
    LET tag == data[at]
        offset == at + 1
        Retagged(t, read) ==
            IF read.raises THEN Raised ELSE Read(Value(t, <<>>, read.value.items), read.offset)
    IN  CASE tag = TypeTag.NONE -> Read(None, offset)
          [] tag = TypeTag.BOOL_TRUE -> Read(Value("bool", <<"True">>, <<>>), offset)
          [] tag = TypeTag.BOOL_FALSE -> Read(Value("bool", <<"False">>, <<>>), offset)
          [] tag \in {TypeTag.INT, TypeTag.INT_NEGATIVE} ->
                Read(Value("int", <<data[offset]>>, <<>>), offset + 1)
          [] tag = TypeTag.INT_BIG ->
                Read(Value("int", Slice(data, offset + 1, data[offset]), <<>>),
                     offset + 1 + data[offset])
          [] tag = TypeTag.INT_BIG_NEGATIVE ->
                Read(Value("int", <<Negated(data[offset + 1])>>, <<>>),
                     offset + 1 + data[offset])
          [] tag = TypeTag.FLOAT -> Read(Value("float", <<data[offset]>>, <<>>), offset + 1)
          [] tag = TypeTag.STR -> Payload("str", data, offset)
          [] tag = TypeTag.BYTES -> Payload("bytes", data, offset)
          [] tag = TypeTag.LIST -> _deserialize_sequence(data, offset)
          [] tag = TypeTag.TUPLE -> Retagged("tuple", _deserialize_sequence(data, offset))
          [] tag = TypeTag.DICT -> _deserialize_dict(data, offset)
          [] tag = TypeTag.SET -> Collected("set", _deserialize_sequence(data, offset))
          [] tag = TypeTag.FROZENSET ->
                Collected("frozenset", _deserialize_sequence(data, offset))
          [] tag = TypeTag.DATACLASS -> _deserialize_dataclass(data, offset)
          [] tag = TypeTag.PYDANTIC_MODEL -> _deserialize_dataclass(data, offset)
          [] tag = TypeTag.DATETIME -> Payload("datetime", data, offset)
          [] tag = TypeTag.DATE -> Payload("date", data, offset)
          [] tag = TypeTag.TIME -> Payload("time", data, offset)
          [] tag = TypeTag.TIMEDELTA ->
                Read(Value("timedelta", <<timedelta(data[offset])>>, <<>>), offset + 1)
          [] tag = TypeTag.DECIMAL -> Payload("decimal", data, offset)
          [] tag = TypeTag.COMPLEX ->
                Read(Value("complex", Slice(data, offset, 2), <<>>), offset + 2)
          [] tag = TypeTag.UUID -> Read(Value("uuid", <<data[offset]>>, <<>>), offset + 1)
          [] tag = TypeTag.ENUM -> _deserialize_enum(data, offset)
          [] OTHER -> Raised

\* deserialize(serialize(v)): what came out and whether every byte was consumed
RoundTrip(v) ==
    LET data == serialize(v)
        read == deserialize(data, 1)
    IN  [done |-> TRUE, raises |-> read.raises, value |-> read.value,
         all |-> ~read.raises /\ read.offset = Len(data) + 1]

\* ---- the values tried: a scalar, nested step by step into composites
Sibling == Str(<<"h", "i">>)
Field == Str(<<"x">>)
Nestings == {"list", "tuple", "set", "frozenset", "dict_value", "dict_key",
             "record", "frozen_record", "model"}

Nested(kind, v) ==
    CASE kind = "list" -> Value("list", <<>>, <<Sibling, v>>)
      [] kind = "tuple" -> Value("tuple", <<>>, <<v>>)
      [] kind = "set" -> Value("set", <<>>, <<v>>)
      [] kind = "frozenset" -> Value("frozenset", <<>>, <<v>>)
      [] kind = "dict_value" -> Value("dict", <<>>, <<Sibling, v, Str(<<>>), None>>)
      [] kind = "dict_key" -> Value("dict", <<>>, <<v, None>>)
      [] kind = "record" -> Value("record", <<"Point">>, <<Field, v>>)
      [] kind = "frozen_record" -> Value("frozen_record", <<"Point">>, <<Field, v>>)
      [] kind = "model" -> Value("model", <<"Model">>, <<Field, v>>)

\* the program builds a composite around the value; a set element and a
\* mapping key must be hashable for the composite to exist
Nest(kind) ==
    /\ ~s_out.done
    /\ s_depth < MaxDepth
    /\ kind \in {"set", "frozenset", "dict_key"} => Hashable(s_val)
    /\ s_val' = Nested(kind, s_val)
    /\ s_depth' = s_depth + 1
    /\ UNCHANGED s_out

\* the value is serialized and the bytes are deserialized
Decode ==
    /\ ~s_out.done
    /\ s_out' = RoundTrip(s_val)
    /\ UNCHANGED <<s_val, s_depth>>

InitValues ==
    /\ InitServer({"AsyncServer"}, {DEFAULT_MAX_CONNECTIONS})
    /\ InitUp({FALSE})
    /\ InitClient({"Client", "AsyncClient"})
    /\ InitNotify({FALSE})
    /\ InitThreaded({TRUE}, {TRUE})
    /\ InitNoHandle
    /\ InitLegacy({DEFAULT_MAX_CONNECTIONS})
    /\ InitWrites
    /\ p_events = <<>>
    /\ s_val \in Scalars
    /\ s_depth = 0
    /\ s_out = NoOut
NextValues ==
    \/ \E kind \in Nestings : Nest(kind) /\ UNCHANGED butValues
    \/ Decode /\ UNCHANGED butValues
SpecValues == InitValues /\ [][NextValues]_vars

\* equality of two Python values: sets compare as sets, everything else in order
RECURSIVE PyEq(_, _)
PyEq(a, b) ==
    /\ a.tag = b.tag
    /\ a.atom = b.atom
    /\ Len(a.items) = Len(b.items)
    /\ IF a.tag \in {"set", "frozenset"}
         THEN /\ \A i \in 1..Len(a.items) : \E j \in 1..Len(b.items) : PyEq(a.items[i], b.items[j])
              /\ \A j \in 1..Len(b.items) : \E i \in 1..Len(a.items) : PyEq(a.items[i], b.items[j])
         ELSE \A i \in 1..Len(a.items) : PyEq(a.items[i], b.items[i])

\* the value a decoder without a schema is to give back for v: v itself with
\* every enum member as its sentinel mapping and every record as its field mapping
RECURSIVE Materialized(_)
Materialized(v) ==
    CASE v.tag = "enum" ->
            Value("dict", <<>>, <<Str(<<"__enum__">>), Str(<<v.atom[1]>>),
                                   Str(<<"__member__">>), Str(<<v.atom[2]>>)>>)
      [] v.tag \in {"record", "frozen_record", "model"} ->
            Value("dict", <<>>, [i \in 1..Len(v.items) |-> Materialized(v.items[i])])
      [] OTHER -> Value(v.tag, v.atom, [i \in 1..Len(v.items) |-> Materialized(v.items[i])])

\* v holds a set element or a mapping key that is an enum member or a record
\* (or holds one), or a duration beyond the precision of a double
RECURSIVE Fragile(_)
Fragile(v) ==
    \/ v.tag = "timedelta" /\ v.atom = <<"999999999 days, 0:00:00.000001">>
    \/ v.tag \in {"set", "frozenset"}
         /\ \E i \in 1..Len(v.items) : ~Hashable(Materialized(v.items[i]))
    \/ v.tag = "dict"
         /\ \E i \in 1..Len(v.items) : i % 2 = 1 /\ ~Hashable(Materialized(v.items[i]))
    \/ \E i \in 1..Len(v.items) : Fragile(v.items[i])

\* C33: for every encodable value, nested to depth MaxDepth,
\* deserialize(serialize(v)) raises nothing, consumes every byte and gives v
\* back, enum members as their sentinel mapping and records as their field
\* mapping, elements and mapping entries in their order.
C33_RoundTrip ==
    s_out.done =>
        /\ ~s_out.raises
        /\ s_out.all
        /\ PyEq(s_out.value, Materialized(s_val))

\* the round trip of every value without an enum member or record as a set
\* element or mapping key and without a duration near timedelta.max
C33_RoundTripElsewhere ==
    (s_out.done /\ ~Fragile(s_val)) =>
        /\ ~s_out.raises
        /\ s_out.all
        /\ PyEq(s_out.value, Materialized(s_val))

\* a set holding an enum member was serialized and deserialize raised
C33_SetOfEnumRaises ==
    /\ s_val = Value("set", <<>>, <<Value("enum", <<"Color", "RED">>, <<>>)>>)
    /\ s_out.done
    /\ s_out.raises

\* a value of depth MaxDepth made the round trip
C33_DeepRoundTrip ==
    /\ s_depth = MaxDepth
    /\ s_val.tag = "dict"
    /\ s_out.done /\ s_out.all
    /\ PyEq(s_out.value, Materialized(s_val))

\* ------------------------------------------- the active-subscription index
\* Two clients of one AsyncServer subscribe, unsubscribe, disconnect and fail,
\* each free to name any subscription_id, the other's included.
SharedSteps(clients) ==
    \/ \E c \in clients :
          \/ ReaderSteps(c)
          \/ Handshake(c)
          \/ SessionSteps(c, {"forever"})
    \/ \E s \in Subs :
          \/ ProducerStart(s)
          \/ GenYield(s)
          \/ DrainDone(s)
          \/ DeliverCancel(s)
          \/ ProducerEnd(s)
NextShared == SharedSteps({1, 2})
SpecShared == Init /\ [][NextShared]_vars

\* subscriptions[id] exists with client_address = c
OwnedBy(id, c) == subscriptions[id] # NoSub /\ task[subscriptions[id]].conn = c

\* C34: the two maps of the index agree: an id is in by_client[c] exactly when
\* subscriptions[id] exists with client_address = c.
C34_IndexAgrees ==
    \A c \in Conns : \A id \in Ids : (id \in by_client[c]) <=> OwnedBy(id, c)

\* the half of the agreement the registry keeps: a registered subscription
\* is in the set of its own client
C34_RegisteredIsListed ==
    \A c \in Conns : \A id \in Ids : OwnedBy(id, c) => id \in by_client[c]

\* an id is listed for a client whose subscription of that id is no longer
\* the registered one
C34_StaleEntry ==
    \E c \in Conns : \E id \in Ids : id \in by_client[c] /\ ~OwnedBy(id, c)

\* the subscriptions whose producer was started for another connection than c
\* and whose index entries a step leaves as they were
OthersKept(c) ==
    \A id \in Ids :
        (subscriptions[id] # NoSub /\ task[subscriptions[id]].conn # c) =>
            /\ subscriptions'[id] = subscriptions[id]
            /\ task'[subscriptions[id]] = task[subscriptions[id]]

\* C36: an unsubscribe-request received on one connection neither cancels nor
\* removes a subscription started for another connection, whatever id it names,
\* and a subscribe-request on one connection replaces no index entry of another.
C36_Isolated ==
    [][\A c \in Conns :
          /\ \A p \in UnsubscribePackets :
                (handshaken[c] /\ RecvUnsubscribe(c, p)) => OthersKept(c)
          /\ \A p \in SubscribePackets({"forever"}) :
                (handshaken[c] /\ RecvSubscribe(c, p)) => OthersKept(c)]_vars

\* requests naming an id that no other connection has registered leave the
\* other connections' subscriptions alone
C36_IsolatedOnFreshIds ==
    [][\A c \in Conns :
          /\ \A p \in UnsubscribePackets :
                (handshaken[c] /\ RecvUnsubscribe(c, p) /\ ~\E d \in Conns \ {c} : OwnedBy(p.sid, d))
                   => OthersKept(c)
          /\ \A p \in SubscribePackets({"forever"}) :
                (handshaken[c] /\ RecvSubscribe(c, p) /\ ~\E d \in Conns \ {c} : OwnedBy(p.sid, d))
                   => OthersKept(c)]_vars

\* ------------------------------------------ the legacy threaded Server
\* libs/htcp/server/server.py: one accept loop, one handler thread per client.
\* Each `with self._clients_lock` block is one step.

\* client_sock, address = self._socket.accept()
LAccept(c) ==
    /\ l_loop = 0
    /\ l_pc[c] = "none"
    /\ l_loop' = c
    /\ l_pc' = [l_pc EXCEPT ![c] = "accepted"]
    /\ UNCHANGED <<l_max, l_clients, l_current>>

\* with self._clients_lock: current_connections = len(self._clients)
LCount(c) ==
    /\ l_loop = c
    /\ l_pc[c] = "accepted"
    /\ l_current' = Cardinality(l_clients)
    /\ l_pc' = [l_pc EXCEPT ![c] = "counted"]
    /\ UNCHANGED <<l_max, l_clients, l_loop>>

\* the test on the count taken: the socket is closed, or the handler thread
\* is started; either way the loop goes back to accept()
LDecide(c) ==
    /\ l_loop = c
    /\ l_pc[c] = "counted"
    /\ l_pc' = [l_pc EXCEPT ![c] = IF 0 < l_max /\ l_max <= l_current
                                   THEN "rejected" ELSE "started"]
    /\ l_loop' = 0
    /\ UNCHANGED <<l_max, l_clients, l_current>>

\* _handle_client, first block: with self._clients_lock: self._clients[address] = client
LRegister(c) ==
    /\ l_pc[c] = "started"
    /\ l_clients' = l_clients \cup {c}
    /\ l_pc' = [l_pc EXCEPT ![c] = "serving"]
    /\ UNCHANGED <<l_max, l_loop, l_current>>

\* the handler's loop ends: the peer closed, or a packet could not be processed
LLoopEnds(c) ==
    /\ l_pc[c] = "serving"
    /\ l_pc' = [l_pc EXCEPT ![c] = "leaving"]
    /\ UNCHANGED <<l_max, l_clients, l_loop, l_current>>

\* finally: with self._clients_lock: self._clients.pop(address, None); sock.close()
LFinally(c) ==
    /\ l_pc[c] = "leaving"
    /\ l_clients' = l_clients \ {c}
    /\ l_pc' = [l_pc EXCEPT ![c] = "closed"]
    /\ UNCHANGED <<l_max, l_loop, l_current>>

InitLegacyServers ==
    /\ InitServer({"AsyncServer"}, {DEFAULT_MAX_CONNECTIONS})
    /\ InitUp({FALSE})
    /\ InitClient({"Client", "AsyncClient"})
    /\ InitNotify({FALSE})
    /\ InitThreaded({TRUE}, {TRUE})
    /\ InitNoHandle
    /\ InitNoValue
    /\ InitWrites
    /\ p_events = <<>>
    /\ InitLegacy(1..MaxK)
NextLegacy ==
    \E c \in Conns :
        \/ LAccept(c) /\ UNCHANGED butLegacy
        \/ LCount(c) /\ UNCHANGED butLegacy
        \/ LDecide(c) /\ UNCHANGED butLegacy
        \/ LRegister(c) /\ UNCHANGED butLegacy
        \/ LLoopEnds(c) /\ UNCHANGED butLegacy
        \/ LFinally(c) /\ UNCHANGED butLegacy
SpecLegacy == InitLegacyServers /\ [][NextLegacy]_vars

\* the connections being served: a handler thread runs for them and their
\* socket is open
LServed == {c \in Conns : l_pc[c] \in {"started", "serving", "leaving"}}

\* C35: in the legacy threaded Server with max_connections = K > 0 the number
\* of connections served at one time never exceeds K.
C35_AtMostK == l_max > 0 => Cardinality(LServed) <= l_max

\* the same bound on the registered clients alone
C35_AtMostKRegistered == l_max > 0 => Cardinality(l_clients) <= l_max

\* the bound that does hold: a connection is refused once K are registered
C35_RefusedWhenFull ==
    [][\A c \in Conns :
          (LDecide(c) /\ l_max > 0 /\ Cardinality(l_clients) >= l_max /\ l_current = Cardinality(l_clients))
             => l_pc'[c] = "rejected"]_vars

\* with K = 1 two clients are registered at once
C35_OverAdmitted == l_max = 1 /\ Cardinality(l_clients) = 2

\* -------------------------------------------------- NotifyManager, again
\* C37: a first subscribe of a user, which takes the guard and announces the
\* user, eventually has its queue stored and the guard released (or is
\* cancelled by its caller), whether or not the user shares a chat with somebody.
C37_SubscribeCompletes ==
    \A s \in Slots :
        (nm_lock = s)
           ~> \/ nm_cancelled[s]
              \/ nm_lock # s /\ nm_pc[s] = "streaming" /\ nm_entry[nm_token[s]] = s

\* the same for the users who share no chat
C37_CompletesAlone ==
    \A s \in Slots :
        (nm_lock = s /\ ~hasMate[UserOf(nm_token[s])])
           ~> \/ nm_cancelled[s]
              \/ nm_lock # s /\ nm_pc[s] = "streaming" /\ nm_entry[nm_token[s]] = s

\* the guard is held by a first subscribe that waits for the guard itself
C37_WaitsForItself ==
    \E s \in Slots :
        /\ nm_lock = s
        /\ nm_pc[s] = "online_notify"
        /\ s \in {nm_waiters[i] : i \in 1..Len(nm_waiters)}

\* ------------------------------- the writers of a threaded client's socket
\* Server._send_packet -> send_packet -> sock.sendall(packet.to_bytes()), called
\* by the reader thread (handshake response, results, errors) and by every
\* producer thread (_run_subscription) with no lock around it.  sendall hands
\* the buffer to send() until all of it is taken; the kernel takes any
\* non-empty prefix in one send(), and other threads run between two of them.
PacketBytes == 2
MaxWrites == 2

\* packet.to_bytes() of the n-th packet of writer t
ToBytes(t, n) == [i \in 1..PacketBytes |-> [by |-> t, packet |-> n, byte |-> i]]

\* _send_packet is entered with a packet
WBegin(t) ==
    /\ w_left[t] = <<>>
    /\ w_count[t] < MaxWrites
    /\ w_count' = [w_count EXCEPT ![t] = @ + 1]
    /\ w_left' = [w_left EXCEPT ![t] = ToBytes(t, w_count[t] + 1)]
    /\ UNCHANGED w_stream

\* one send() inside sendall: k bytes go to the socket
WSend(t, k) ==
    /\ w_left[t] # <<>>
    /\ k \in 1..Len(w_left[t])
    /\ w_stream' = w_stream \o SubSeq(w_left[t], 1, k)
    /\ w_left' = [w_left EXCEPT ![t] = SubSeq(@, k + 1, Len(@))]
    /\ UNCHANGED w_count

InitWriting ==
    /\ InitServer({"Server"}, {DEFAULT_MAX_CONNECTIONS})
    /\ InitUp({FALSE})
    /\ InitClient({"Client", "AsyncClient"})
    /\ InitNotify({FALSE})
    /\ InitThreaded({TRUE}, {TRUE})
    /\ InitNoHandle
    /\ InitNoValue
    /\ InitLegacy({DEFAULT_MAX_CONNECTIONS})
    /\ InitWrites
    /\ p_events = <<>>
NextWriting ==
    \E t \in Writers :
        \/ WBegin(t) /\ UNCHANGED butWrites
        \/ \E k \in 1..PacketBytes : WSend(t, k) /\ UNCHANGED butWrites
SpecWriting == InitWriting /\ [][NextWriting]_vars

\* byte i of the stream is followed by the next byte of its packet, or, if it
\* ends a packet, by the first byte of a packet
FollowsOn(i) ==
    IF w_stream[i].byte < PacketBytes
      THEN w_stream[i + 1] = [w_stream[i] EXCEPT !.byte = @ + 1]
      ELSE w_stream[i + 1].byte = 1

\* C38: the bytes written to one client socket by the reader thread and the
\* producer threads are a concatenation of whole packets (the last one
\* possibly still being written): no packet's bytes are split by another's.
C38_WholePackets == \A i \in 1..(Len(w_stream) - 1) : FollowsOn(i)

\* what one send() guarantees: the bytes of each writer are in the stream in
\* the order that writer produced them
C38_EachWriterInOrder ==
    \A t \in Writers :
        LET own == SelectSeq(w_stream, LAMBDA b : b.by = t)
        IN  \A i \in 1..Len(own) :
               own[i] = ToBytes(t, ((i - 1) \div PacketBytes) + 1)[((i - 1) % PacketBytes) + 1]

\* while one thread alone writes, the stream is made of whole packets
C38_WholeWhenAlone ==
    (\E t \in Writers : \A u \in Writers \ {t} : w_count[u] = 0) => C38_WholePackets

\* a packet of a producer lies between the two bytes of a packet of the reader
C38_Interleaved ==
    \E i \in 1..(Len(w_stream) - 2) :
        /\ w_stream[i] = [by |-> "reader", packet |-> 1, byte |-> 1]
        /\ w_stream[i + 1].by # "reader"
        /\ \E j \in (i + 2)..Len(w_stream) :
              w_stream[j] = [by |-> "reader", packet |-> 1, byte |-> 2]

\* ------------------------------------------------ presence events to a peer
\* The users of the table come to share a chat with a peer who subscribed
\* before the chat existed; p_events is what notify_user(peer, ...) put on the
\* peer's queue.  _broadcast_user_online never gets that far: subscribe calls
\* it with the lock held and its notify_user waits for that lock.

\* the user becomes a member of a chat with the peer (chats service)
JoinChat(u) ==
    /\ ~hasMate[u]
    /\ hasMate' = [hasMate EXCEPT ![u] = TRUE]
    /\ UNCHANGED <<coreVars, upVars, clientVars, thrVars, moreVars, nm_keys, nm_entry, nm_lock,
                   nm_waiters, nm_pc, nm_token, nm_cancelled, nm_queue, nm_yielded, nm_hist,
                   nm_notifier, nm_called, nm_sent>>

Presence(type, u) == [type |-> type, user |-> u]

\* _broadcast_user_offline: notify_user(peer, user_offline) takes the lock and
\* puts the event on the peer's queue
OfflineNotifyPeer(s) ==
    /\ nm_pc[s] = "offline_notify"
    /\ NmLockFor(s)
    /\ nm_waiters' = Tail(nm_waiters)
    /\ nm_pc' = [nm_pc EXCEPT ![s] = "done"]
    /\ p_events' = Append(p_events, Presence("user_offline", UserOf(nm_token[s])))
    /\ UNCHANGED <<coreVars, upVars, clientVars, thrVars, handleVars, serVars, legacyVars,
                   writeVars, hasMate, nm_keys, nm_entry, nm_lock, nm_token, nm_cancelled,
                   nm_queue, nm_yielded, nm_hist, nm_notifier, nm_called, nm_sent>>

InitPresence ==
    /\ InitServer({"AsyncServer"}, {DEFAULT_MAX_CONNECTIONS})
    /\ InitUp({FALSE})
    /\ InitClient({"Client"})
    /\ InitNotify({FALSE})
    /\ InitThreaded({TRUE}, {TRUE})
    /\ InitMore
NextPresence ==
    \/ \E s \in Slots :
          \/ \E tk \in Tokens : NmSubscribe(s, tk)
          \/ LookupDone(s)
          \/ RegisterBegin(s)
          \/ OnlineRepoDone(s)
          \/ NmCancel(s)
          \/ Unregister(s)
          \/ OfflineCalls(s)
          \/ OfflineNotifyPeer(s)
    \/ \E u \in Users : JoinChat(u)
SpecPresence == InitPresence /\ [][NextPresence]_vars

\* no subscribe and no unsubscribe is under way
Quiescent == \A s \in Slots : nm_pc[s] \in {"idle", "streaming", "done"}

\* the presence events about u on the peer's queue
About(u) == SelectSeq(p_events, LAMBDA e : e.user = u)

\* stream s of u was the only one when it ended, and stream t of u was
\* registered before s had left the table
Raced(s, t) ==
    /\ s # t
    /\ UserOf(nm_token[s]) = UserOf(nm_token[t])
    /\ nm_hist[s].offline /\ nm_hist[s].othersLeft
    /\ nm_hist[t].first

\* C39: when a user's last subscription ended while the user subscribed
\* again, then, once every operation has finished, the last presence event on
\* the peer's queue about the user says online exactly when is_online(user).
C39_PresenceAgrees ==
    \A s \in Slots : \A t \in Slots :
        (Quiescent /\ Raced(s, t) /\ About(UserOf(nm_token[s])) # <<>>) =>
            LET about == About(UserOf(nm_token[s]))
            IN  (about[Len(about)].type = "user_online") <=> IsOnline(UserOf(nm_token[s]))

\* the peer is told nothing but user_offline
C39_OnlyOfflineArrives == \A i \in 1..Len(p_events) : p_events[i].type = "user_offline"

\* the events agree with the table whenever the user has no stream left
C39_AgreesWhenGone ==
    \A u \in Users :
        (Quiescent /\ About(u) # <<>> /\ ~IsOnline(u)) =>
            About(u)[Len(About(u))].type = "user_offline"

\* after the race the user is online with an open stream and the peer's last
\* word about the user is user_offline
C39_OnlineButAnnouncedOffline ==
    \E s \in Slots : \E t \in Slots :
        /\ Quiescent /\ Raced(s, t)
        /\ nm_pc[t] = "streaming"
        /\ IsOnline(UserOf(nm_token[t]))
        /\ About(UserOf(nm_token[t])) # <<>>
        /\ About(UserOf(nm_token[t]))[Len(About(UserOf(nm_token[t])))].type = "user_offline"

\* two open streams of one user, subscribed with the given tokens
BothOpen(s, t) ==
    /\ s # t
    /\ nm_pc[s] = "streaming" /\ nm_pc[t] = "streaming"
    /\ UserOf(nm_token[s]) = "U" /\ UserOf(nm_token[t]) = "U"

\* C40: when two live streams were subscribed with the same token, every
\* notify_user of their user puts the event on the queues of both, and the end
\* of one leaves the user online.
C40_BothStreamsServed ==
    [][\A s \in Slots : \A t \in Slots :
          (BothOpen(s, t) /\ nm_token[s] = nm_token[t]) =>
              /\ NotifyRun =>
                    /\ nm_queue'[s] = Append(nm_queue[s], nm_called)
                    /\ nm_queue'[t] = Append(nm_queue[t], nm_called)
              /\ (NmCancel(s) \/ Unregister(s)) => IsOnline("U")']_vars

\* the same for two streams subscribed with different tokens
C40_BothServedOnDistinctTokens ==
    [][\A s \in Slots : \A t \in Slots :
          (BothOpen(s, t) /\ nm_token[s] # nm_token[t]) =>
              /\ NotifyRun =>
                    /\ nm_queue'[s] = Append(nm_queue[s], nm_called)
                    /\ nm_queue'[t] = Append(nm_queue[t], nm_called)
              /\ (NmCancel(s) \/ Unregister(s)) => IsOnline("U")']_vars

\* one of two streams of the same token has ended, the other is open, and the
\* user is reported offline
C40_OpenButOffline ==
    \E s \in Slots : \E t \in Slots :
        /\ s # t
        /\ nm_token[s] = nm_token[t]
        /\ nm_pc[s] = "done" /\ nm_hist[s].offline
        /\ nm_pc[t] = "streaming"
        /\ ~IsOnline(UserOf(nm_token[t]))
====
